---- MODULE Spec2Model ----
(***************************************************************************)
(* Model of the gmw/jmw deployment helper: the Go deployer                 *)
(* (src/cmd/root.go, src/cmd/deploy.go) and the JS variant                 *)
(* (src/src/*.js, src/unnamed/part_001 = config.js, part_002 =             *)
(* deployer.js).                                                           *)
(*                                                                         *)
(* Strings are TLA+ strings; Len, \o and SubSeq work on them, so prefix,   *)
(* suffix and substring tests are computed as the code computes them.      *)
(***************************************************************************)
EXTENDS Integers, Sequences, FiniteSets, TLC

VARIABLES
    pc,      \* position of the running command / call
    input,   \* arguments and environment the call or command was started with
    result,  \* value returned by a pure call (classifier, expandPaths, guide, ...)
    fsops,   \* filesystem operations performed so far, in order
    procs,   \* subprocesses started so far, in order, with their outcome
    out,     \* lines / headings printed so far, in order
    confirmed, \* outcome of the confirmation prompt: "unasked", "accepted", "declined"
    exit     \* process exit status: "running", "zero" or "nonzero"

vars == <<pc, input, result, fsops, procs, out, confirmed, exit>>

\* what a command does to the world
effects == <<fsops, procs, out, confirmed, exit>>

(***************************************************************************)
(* Bounds                                                                  *)
(***************************************************************************)
MaxPatterns == 2

(***************************************************************************)
(* String helpers (Go strings.HasSuffix / HasPrefix / Contains,            *)
(* JS String.prototype.startsWith)                                         *)
(***************************************************************************)
HasPrefix(s, p) ==
    /\ Len(s) >= Len(p)
    /\ SubSeq(s, 1, Len(p)) = p

HasSuffix(s, p) ==
    /\ Len(s) >= Len(p)
    /\ SubSeq(s, Len(s) - Len(p) + 1, Len(s)) = p

Contains(s, p) ==
    \E i \in 1..(Len(s) - Len(p) + 1) : SubSeq(s, i, i + Len(p) - 1) = p

SeqsUpTo(S, n) == UNION { [1..k -> S] : k \in 0..n }

(***************************************************************************)
(* Go regexp, restricted to the syntax the modelled configurations use:    *)
(* a literal with an optional leading ^ and an optional trailing $.        *)
(* A pattern containing "(" (never closed here) fails to compile.          *)
(* Matching is unanchored unless the anchors say otherwise.                *)
(***************************************************************************)
regexpCompileOk(expr) == ~Contains(expr, "(")

regexpLiteral(expr) ==
    LET a == IF HasPrefix(expr, "^") THEN 2 ELSE 1
        b == IF HasSuffix(expr, "$") THEN Len(expr) - 1 ELSE Len(expr)
    IN  SubSeq(expr, a, b)

regexpMatchString(expr, s) ==
    LET lit == regexpLiteral(expr)
    IN  /\ regexpCompileOk(expr)
        /\ IF HasPrefix(expr, "^")
           THEN IF HasSuffix(expr, "$") THEN s = lit ELSE HasPrefix(s, lit)
           ELSE IF HasSuffix(expr, "$") THEN HasSuffix(s, lit) ELSE Contains(s, lit)

(***************************************************************************)
(* Configuration values of the Go deployer                                 *)
(***************************************************************************)
Severities == {"required", "recommended", "info"}
Matches    == {"EJB", "war$", "^Sinfo", "Entity", "java$", "("}

RestartPattern(m, s) == [Match |-> m, Severity |-> s, Reason |-> m \o " is " \o s]

PatternPool == { RestartPattern(m, s) : m \in Matches, s \in Severities }

\* d.cfg.RestartRules: a nil pointer, or a struct with the two fields
NilRules == [isNil |-> TRUE, GlobalModule |-> FALSE, Patterns |-> <<>>]

RestartRulesSet ==
    {NilRules} \cup
    { [isNil |-> FALSE, GlobalModule |-> g, Patterns |-> ps] :
        g \in BOOLEAN, ps \in SeqsUpTo(PatternPool, MaxPatterns) }

ArtifactNames == {"EJBPcs.jar", "SinfoMto.war", "util.jar", "EJBweb.war", "app.ear"}

\* relative paths filepath.WalkDir visits under d.projectInfo.ModulePath, in
\* walk order; the root itself is visited first as "."; a missing ModulePath
\* gives no path at all (the callback sees err != nil and returns nil)
ModuleTrees == { <<>>, <<".">>, <<".", "src", "src/UserEntity.java">> }

(***************************************************************************)
(* Restart classifier (Go)                                                 *)
(***************************************************************************)
\* root.go:366-380
fallbackRestartCheck_NoWar(isGlobal, artifactName) ==
    IF isGlobal
    THEN <<"required", "Global module modification">>
    ELSE IF HasSuffix(artifactName, ".jar") /\ Contains(artifactName, "EJB")
    THEN <<"recommended", "EJB implementation JAR">>
    ELSE <<"recommended", "Standard deployment (restart to ensure changes are loaded)">>

fallbackRestartCheck(isGlobal, artifactName) ==
    IF isGlobal
    THEN <<"required", "Global module modification">>
    ELSE IF HasSuffix(artifactName, ".jar") /\ Contains(artifactName, "EJB")
    THEN <<"recommended", "EJB implementation JAR">>
    ELSE IF HasSuffix(artifactName, ".war")
    THEN <<"none", "WAR hot-deployment">>
    ELSE <<"recommended", "Standard deployment (restart to ensure changes are loaded)">>

\* root.go:320-363: one entry per pattern that compiles and matches some
\* visited path, in configuration order
checkSourceFilesAgainstPatterns(rules, tree) ==
    IF rules.isNil \/ Len(rules.Patterns) = 0
    THEN <<>>
    ELSE SelectSeq(rules.Patterns,
            LAMBDA p : /\ regexpCompileOk(p.Match)
                       /\ \E i \in 1..Len(tree) : regexpMatchString(p.Match, tree[i]))

\* root.go:276: the global-module override
globalModuleOverride_Off(rules, isGlobal) == FALSE

globalModuleOverride(rules, isGlobal) ==
    isGlobal /\ ~rules.isNil /\ rules.GlobalModule

\* root.go:274-317 with the source scan consulted before the artifact name
determineRestartRequirement_SourcesFirst(rules, tree, isGlobal, artifactName) ==
    IF globalModuleOverride(rules, isGlobal)
    THEN <<"required", "Global module modification">>
    ELSE IF rules.isNil \/ Len(rules.Patterns) = 0
    THEN fallbackRestartCheck(isGlobal, artifactName)
    ELSE
      LET hits == { i \in 1..Len(rules.Patterns) :
                      regexpMatchString(rules.Patterns[i].Match, artifactName) }
          matches == checkSourceFilesAgainstPatterns(rules, tree)
      IN  IF Len(matches) > 0
          THEN LET highestSeverity ==
                     IF \E k \in 1..Len(matches) : matches[k].Severity = "required"
                     THEN "required" ELSE "recommended"
               IN  <<highestSeverity, "Source code changes: " \o matches[1].Reason>>
          ELSE IF hits # {}
          THEN LET first == CHOOSE i \in hits : \A j \in hits : i <= j
               IN  <<rules.Patterns[first].Severity, rules.Patterns[first].Reason>>
          ELSE IF HasSuffix(artifactName, ".war")
          THEN <<"none", "WAR hot-deployment">>
          ELSE <<"recommended", "Standard deployment (restart to ensure changes are loaded)">>

\* root.go:274-317
determineRestartRequirement(rules, tree, isGlobal, artifactName) ==
    IF globalModuleOverride(rules, isGlobal)
    THEN <<"required", "Global module modification">>
    ELSE IF rules.isNil \/ Len(rules.Patterns) = 0
    THEN fallbackRestartCheck(isGlobal, artifactName)
    ELSE
      LET hits == { i \in 1..Len(rules.Patterns) :
                      regexpMatchString(rules.Patterns[i].Match, artifactName) }
          matches == checkSourceFilesAgainstPatterns(rules, tree)
      IN  IF hits # {}
          THEN LET first == CHOOSE i \in hits : \A j \in hits : i <= j
               IN  <<rules.Patterns[first].Severity, rules.Patterns[first].Reason>>
          ELSE IF Len(matches) > 0
          THEN LET highestSeverity ==
                     IF \E k \in 1..Len(matches) : matches[k].Severity = "required"
                     THEN "required" ELSE "recommended"
               IN  <<highestSeverity, "Source code changes: " \o matches[1].Reason>>
          ELSE IF HasSuffix(artifactName, ".war")
          THEN <<"none", "WAR hot-deployment">>
          ELSE <<"recommended", "Standard deployment (restart to ensure changes are loaded)">>

(***************************************************************************)
(* Specification of the classifier: the inputs are drawn in Init, the      *)
(* action applies determineRestartRequirement once.                        *)
(***************************************************************************)
NoResult == [kind |-> "none"]

NoEffects ==
    /\ fsops = <<>>
    /\ procs = <<>>
    /\ out = <<>>
    /\ confirmed = "unasked"
    /\ exit = "running"

ClassifyInputs ==
    [fn : {"determineRestartRequirement"},
     rules : RestartRulesSet,
     tree : ModuleTrees,
     isGlobal : BOOLEAN,
     artifactName : ArtifactNames]

InitClassify ==
    /\ input \in ClassifyInputs
    /\ pc = "call"
    /\ result = NoResult
    /\ NoEffects

\* root.go:285-297: is checkSourceFilesAgainstPatterns reached
sourcesScanned(rules, isGlobal, artifactName) ==
    /\ ~globalModuleOverride(rules, isGlobal)
    /\ ~rules.isNil /\ Len(rules.Patterns) > 0
    /\ \A i \in 1..Len(rules.Patterns) :
          ~regexpMatchString(rules.Patterns[i].Match, artifactName)

\* root.go:328-359: one filepath.WalkDir of the module path for each
\* pattern that compiles; ok tells whether the walk found a match
walkDirs(rules, tree) ==
    LET compiled == SelectSeq(rules.Patterns, LAMBDA p : regexpCompileOk(p.Match))
    IN  [i \in 1..Len(compiled) |->
            [op |-> "walk", path |-> compiled[i].Match,
             ok |-> \E k \in 1..Len(tree) : regexpMatchString(compiled[i].Match, tree[k])]]

DetermineRestartRequirement ==
    /\ pc = "call"
    /\ input.fn = "determineRestartRequirement"
    /\ LET r == determineRestartRequirement(input.rules, input.tree,
                                            input.isGlobal, input.artifactName)
       IN  result' = [kind |-> "restart", severity |-> r[1], reason |-> r[2]]
    /\ fsops' = IF sourcesScanned(input.rules, input.isGlobal, input.artifactName)
                THEN fsops \o walkDirs(input.rules, input.tree)
                ELSE fsops
    /\ pc' = "done"
    /\ UNCHANGED <<input, procs, out, confirmed, exit>>

NextClassify == DetermineRestartRequirement

SpecClassify == InitClassify /\ [][NextClassify]_vars

Classified == pc = "done" /\ input.fn = "determineRestartRequirement"

\* patterns of the configuration that compile and match the artifact name
NameMatching ==
    { i \in 1..Len(input.rules.Patterns) :
        regexpMatchString(input.rules.Patterns[i].Match, input.artifactName) }

\* patterns of the configuration that compile and match a scanned path
SourceMatching ==
    { i \in 1..Len(input.rules.Patterns) :
        \E k \in 1..Len(input.tree) :
            regexpMatchString(input.rules.Patterns[i].Match, input.tree[k]) }

\* C1: an artifact name matching some 'required' pattern is classified
\* 'required', whatever other patterns match and whatever their order.
C1_RequiredNameMatchWins ==
    (Classified /\ \E i \in NameMatching : input.rules.Patterns[i].Severity = "required")
        => result.severity = "required"

\* C2: a global module with the GlobalModule override rule set is classified
\* 'required' for every artifact name and every pattern list.
C2_GlobalOverrideRequired ==
    (Classified /\ input.isGlobal /\ ~input.rules.isNil /\ input.rules.GlobalModule)
        => result.severity = "required"

\* the override decided a case where a lower-severity pattern matches the name
C2_Witness ==
    /\ Classified /\ input.isGlobal /\ ~input.rules.isNil /\ input.rules.GlobalModule
    /\ \E i \in NameMatching : input.rules.Patterns[i].Severity = "recommended"
    /\ result.severity = "required"

\* C3: a non-global '.war' artifact that no configured rule matches (by name
\* or by scanned path, or because there are no rules) is classified 'none'.
C3_WarNoMatchNone ==
    (/\ Classified
     /\ ~input.isGlobal
     /\ HasSuffix(input.artifactName, ".war")
     /\ NameMatching = {}
     /\ SourceMatching = {})
        => result.severity = "none"

\* rules are configured, none matches the .war, and the answer is 'none'
C3_Witness ==
    /\ Classified /\ ~input.isGlobal
    /\ HasSuffix(input.artifactName, ".war")
    /\ ~input.rules.isNil /\ Len(input.rules.Patterns) = MaxPatterns
    /\ NameMatching = {} /\ SourceMatching = {}
    /\ result.severity = "none"

\* the heuristic of the specification: global module -> required,
\* EJB jar -> recommended, .war -> none
Heuristic(isGlobal, artifactName) ==
    IF isGlobal THEN "required"
    ELSE IF HasSuffix(artifactName, ".jar") /\ Contains(artifactName, "EJB") THEN "recommended"
    ELSE IF HasSuffix(artifactName, ".war") THEN "none"
    ELSE "recommended"

\* C4: whenever no configured rule matches (none configured, or none of the
\* configured ones matches), the result is the heuristic one; in particular a
\* global module is 'required' even without the override flag.
C4_FallbackHeuristic ==
    (Classified /\ NameMatching = {} /\ SourceMatching = {})
        => result.severity = Heuristic(input.isGlobal, input.artifactName)

(***************************************************************************)
(* Configuration documents (parsed YAML) and expandPaths (JS)              *)
(***************************************************************************)
MaxDepth == 2

Str(s)  == [t |-> "string", s |-> s]
Num(n)  == [t |-> "number", n |-> n]
Null    == [t |-> "null"]
Arr(xs) == [t |-> "array", items |-> xs]
\* an object is the sequence of its Object.entries
Obj(es) == [t |-> "object", entries |-> es]
Entry(k, v) == [key |-> k, value |-> v]

homedir == "/home/u"

PathStrings == {"~/wildfly", "~", "~user/wf", "/opt/wf"}
Scalars     == { Str(s) : s \in PathStrings } \cup {Num(8080), Null}
Siblings    == {Str("~/lib"), Num(1)}

\* documents nested at most n deep: each container holds one nested value,
\* alone or next to one scalar sibling
RECURSIVE Docs(_)
Docs(n) ==
    IF n = 0 THEN Scalars
    ELSE LET sub == Docs(n - 1)
         IN  sub
             \cup { Arr(<<x>>) : x \in sub }
             \cup { Arr(<<x, s>>) : x \in sub, s \in Siblings }
             \cup { Obj(<<Entry("root", x)>>) : x \in sub }
             \cup { Obj(<<Entry("port", s), Entry("root", x)>>) : x \in sub, s \in Siblings }

\* untildify: pathWithTilde.replace(/^~(?=$|\/|\\)/, homeDirectory)
untildify(s) ==
    IF HasPrefix(s, "~") /\ (Len(s) = 1 \/ SubSeq(s, 2, 2) = "/" \/ SubSeq(s, 2, 2) = "\\")
    THEN homedir \o SubSeq(s, 2, Len(s))
    ELSE s

\* part_001:50-51: value.startsWith('~') ? value.replace('~', os.homedir())
replaceTilde(s) ==
    IF HasPrefix(s, "~") THEN homedir \o SubSeq(s, 2, Len(s)) ELSE s

\* src/src/config.js:42-53
RECURSIVE expandPaths(_)
expandPaths(obj) ==
    IF obj.t \notin {"array", "object"} THEN obj
    ELSE IF obj.t = "array"
    THEN Arr([i \in 1..Len(obj.items) |-> expandPaths(obj.items[i])])
    ELSE Obj([i \in 1..Len(obj.entries) |->
                LET e == obj.entries[i]
                IN  Entry(e.key,
                          IF e.value.t = "string" THEN Str(untildify(e.value.s))
                          ELSE IF e.value.t \in {"array", "object", "null"}
                          THEN expandPaths(e.value)
                          ELSE e.value)])

\* src/unnamed/part_001:41-59 (config.js before untildify)
RECURSIVE expandPathsReplace(_)
expandPathsReplace(obj) ==
    IF obj.t \notin {"array", "object"} THEN obj
    ELSE IF obj.t = "array"
    THEN Arr([i \in 1..Len(obj.items) |-> expandPathsReplace(obj.items[i])])
    ELSE Obj([i \in 1..Len(obj.entries) |->
                LET e == obj.entries[i]
                IN  Entry(e.key,
                          IF e.value.t = "string" /\ HasPrefix(e.value.s, "~")
                          THEN Str(replaceTilde(e.value.s))
                          ELSE IF e.value.t \in {"array", "object", "null"}
                          THEN expandPathsReplace(e.value)
                          ELSE e.value)])

\* the loaded configuration is a mapping at top level
ExpandInputs ==
    [fn : {"expandPaths", "expandPathsReplace"},
     obj : { x \in Docs(MaxDepth) : x.t = "object" }]

InitExpand ==
    /\ input \in ExpandInputs
    /\ pc = "call"
    /\ result = NoResult
    /\ NoEffects

ExpandPaths ==
    /\ pc = "call"
    /\ input.fn = "expandPaths"
    /\ result' = [kind |-> "doc", doc |-> expandPaths(input.obj)]
    /\ pc' = "done"
    /\ UNCHANGED <<input, effects>>

ExpandPathsReplace ==
    /\ pc = "call"
    /\ input.fn = "expandPathsReplace"
    /\ result' = [kind |-> "doc", doc |-> expandPathsReplace(input.obj)]
    /\ pc' = "done"
    /\ UNCHANGED <<input, effects>>

NextExpand == ExpandPaths \/ ExpandPathsReplace

SpecExpand == InitExpand /\ [][NextExpand]_vars

\* what the claim describes: the leading '~' of every string at every depth
\* (mapping values and sequence elements alike) is expanded, by the same
\* tilde expansion the variant applies to mapping values; everything else is
\* unchanged
C5_Tilde(fn, s) == IF fn = "expandPaths" THEN untildify(s) ELSE replaceTilde(s)

RECURSIVE C5_Expected(_, _)
C5_Expected(fn, v) ==
    IF v.t = "string" THEN Str(C5_Tilde(fn, v.s))
    ELSE IF v.t = "array"
    THEN Arr([i \in 1..Len(v.items) |-> C5_Expected(fn, v.items[i])])
    ELSE IF v.t = "object"
    THEN Obj([i \in 1..Len(v.entries) |->
                Entry(v.entries[i].key, C5_Expected(fn, v.entries[i].value))])
    ELSE v

\* C5: expandPaths expands the leading '~' of every string value at every
\* nesting depth, including strings that are direct elements of a sequence,
\* and returns every other value unchanged.
C5_ExpandsEveryString ==
    (pc = "done" /\ result.kind = "doc") => result.doc = C5_Expected(input.fn, input.obj)

(***************************************************************************)
(* Remote guide printers: Go showRemoteGuide, JS showRemoteDeploymentGuide *)
(* Both only print; the printed lines are the result.                      *)
(***************************************************************************)
\* filepath.Join / path.join of clean, non-empty elements
Join2(a, b) == a \o "/" \o b
Join3(a, b, c) == a \o "/" \o b \o "/" \o c

\* filepath.Base / path.basename: the part after the last "/"
Base(p) ==
    LET slashes == { i \in 1..Len(p) : SubSeq(p, i, i) = "/" }
    IN  IF slashes = {} THEN p
        ELSE LET last == CHOOSE i \in slashes : \A j \in slashes : j <= i
             IN  SubSeq(p, last + 1, Len(p))

Modes == {"standalone", "domain"}

\* a configured remote / client: config Remote{User, Host, WildFlyPath,
\* RestartCmd} in Go, clients.<name>.{user, host, wildfly_path, restart_cmd} in JS
Clients ==
    { [user |-> "deploy", host |-> "app1.example", wildfly_path |-> "/opt/wildfly",
       restart_cmd |-> "sudo systemctl restart wildfly"],
      [user |-> "root", host |-> "10.0.0.5", wildfly_path |-> "/srv/wf",
       restart_cmd |-> "/srv/wf/bin/restart.sh"] }

ArtifactPaths == {"foo.jar", "target/EJBPcs.jar", "./target/SinfoMto.war"}
ServerGroups  == {"main-server-group", "other-server-group"}
DeploymentPaths == {"modules/ejbmto/main"}

userAtHost(c) == c.user \o "@" \o c.host

\* root.go:383-428 with d.projectInfo.Config.Remote = remote (not nil)
showRemoteGuide(remote, mode, serverGroup, deploymentPath, artifactPath, artifactName, isGlobal) ==
    LET head == << "", "REMOTE DEPLOYMENT GUIDE", "Host: " \o userAtHost(remote), "" >>
        copy ==
            IF isGlobal
            THEN << "1. Copy artifact:",
                    "   scp " \o artifactPath \o " " \o userAtHost(remote) \o ":"
                        \o Join2(remote.wildfly_path, deploymentPath) >>
            ELSE IF mode = "standalone"
            THEN LET deployPath == Join3(remote.wildfly_path, "standalone", "deployments")
                 IN  << "1. Copy artifact:",
                        "   scp " \o artifactPath \o " " \o userAtHost(remote) \o ":" \o deployPath,
                        "", "2. Trigger deployment:",
                        "   ssh " \o userAtHost(remote) \o " \"touch " \o deployPath \o "/"
                            \o artifactName \o ".dodeploy\"" >>
            ELSE LET jbossCli == Join3(remote.wildfly_path, "bin", "jboss-cli.sh")
                 IN  << "1. Copy artifact to remote server:",
                        "   scp " \o artifactPath \o " " \o userAtHost(remote) \o ":/tmp/",
                        "", "2. Deploy via jboss-cli:",
                        "   ssh " \o userAtHost(remote) \o " \"" \o jbossCli
                            \o " --connect controller=localhost 'undeploy " \o artifactName
                            \o " --server-groups=" \o serverGroup \o "'\"",
                        "   ssh " \o userAtHost(remote) \o " \"" \o jbossCli
                            \o " --connect controller=localhost 'deploy /tmp/" \o artifactName
                            \o " --server-groups=" \o serverGroup \o "'\"" >>
        logPath ==
            IF mode = "domain"
            THEN Join3(remote.wildfly_path, "domain", "log") \o "/server.log"
            ELSE Join3(remote.wildfly_path, "standalone", "log") \o "/server.log"
        tail == << "", "2. Restart WildFly:",
                   "   ssh " \o userAtHost(remote) \o " \"" \o remote.restart_cmd \o "\"",
                   "", "3. Verify deployment:",
                   "   ssh " \o userAtHost(remote) \o " \"tail -f " \o logPath \o "\"" >>
    IN  head \o copy \o tail

\* part_002:286-318 with the copy step (heading and scp line) left out
showRemoteDeploymentGuide_NoScp(artifactPath, mode, clientConfig, isGlobalModule, deploymentPath) ==
    LET artifactName == Base(artifactPath)
        logPath == clientConfig.wildfly_path \o "/" \o mode \o "/log/server.log"
        sudo == IF clientConfig.user = "root" THEN "" ELSE "sudo "
    IN  IF isGlobalModule
        THEN << "2. Restart WildFly (required for global modules):",
                "   ssh " \o userAtHost(clientConfig) \o " \"" \o clientConfig.restart_cmd \o "\"",
                "",
                "3. Watch server logs:",
                "   ssh " \o userAtHost(clientConfig) \o " \"" \o sudo \o "tail -n 20 -f "
                    \o logPath \o "\"" >>
        ELSE LET deploymentsPath == clientConfig.wildfly_path \o "/" \o mode \o "/deployments"
             IN << "2. Trigger hot deployment:",
                   "   ssh " \o userAtHost(clientConfig) \o " \"" \o sudo \o "touch "
                       \o deploymentsPath \o "/" \o artifactName \o ".dodeploy\"",
                   "",
                   "3. Watch deployment logs:",
                   "   ssh " \o userAtHost(clientConfig) \o " \"" \o sudo \o "tail -n 20 -f "
                       \o logPath \o "\"" >>

\* part_002:286-318; mode is wildflyConfig.mode, isGlobalModule is
\* moduleInfo && moduleInfo.isGlobalModule
showRemoteDeploymentGuide(artifactPath, mode, clientConfig, isGlobalModule, deploymentPath) ==
    LET artifactName == Base(artifactPath)
        logPath == clientConfig.wildfly_path \o "/" \o mode \o "/log/server.log"
        sudo == IF clientConfig.user = "root" THEN "" ELSE "sudo "
    IN  IF isGlobalModule
        THEN LET modulesPath == clientConfig.wildfly_path \o "/" \o deploymentPath
             IN << "1. Copy artifact to WildFly modules:",
                   "   scp " \o artifactPath \o " " \o userAtHost(clientConfig) \o ":"
                       \o modulesPath \o "/",
                   "",
                   "2. Restart WildFly (required for global modules):",
                   "   ssh " \o userAtHost(clientConfig) \o " \"" \o clientConfig.restart_cmd \o "\"",
                   "",
                   "3. Watch server logs:",
                   "   ssh " \o userAtHost(clientConfig) \o " \"" \o sudo \o "tail -n 20 -f "
                       \o logPath \o "\"" >>
        ELSE LET deploymentsPath == clientConfig.wildfly_path \o "/" \o mode \o "/deployments"
             IN << "1. Copy artifact to WildFly:",
                   "   scp " \o artifactPath \o " " \o userAtHost(clientConfig) \o ":"
                       \o deploymentsPath \o "/",
                   "",
                   "2. Trigger hot deployment:",
                   "   ssh " \o userAtHost(clientConfig) \o " \"" \o sudo \o "touch "
                       \o deploymentsPath \o "/" \o artifactName \o ".dodeploy\"",
                   "",
                   "3. Watch deployment logs:",
                   "   ssh " \o userAtHost(clientConfig) \o " \"" \o sudo \o "tail -n 20 -f "
                       \o logPath \o "\"" >>

(***************************************************************************)
(* Confirmation prompts                                                    *)
(***************************************************************************)
\* what the user may have typed on stdin when the prompt reads; a content
\* without "\n" is an input that ended (EOF) before the line was terminated
Stdins ==
    {"\n", "  \n", "y\n", "Y\n", "Yes\n", " YES \n", "yes\n", "n\n", "no\n", "maybe\n",
     "y", ""}

lowerChar(c) ==
    CASE c = "Y" -> "y" [] c = "E" -> "e" [] c = "S" -> "s"
      [] c = "N" -> "n" [] c = "O" -> "o" [] OTHER -> c

RECURSIVE ToLower(_)
ToLower(s) ==
    IF Len(s) = 0 THEN ""
    ELSE lowerChar(SubSeq(s, 1, 1)) \o ToLower(SubSeq(s, 2, Len(s)))

IsSpace(c) == c \in {" ", "\t", "\n", "\r"}

RECURSIVE TrimLeft(_)
TrimLeft(s) ==
    IF Len(s) > 0 /\ IsSpace(SubSeq(s, 1, 1)) THEN TrimLeft(SubSeq(s, 2, Len(s))) ELSE s

RECURSIVE TrimRight(_)
TrimRight(s) ==
    IF Len(s) > 0 /\ IsSpace(SubSeq(s, Len(s), Len(s)))
    THEN TrimRight(SubSeq(s, 1, Len(s) - 1)) ELSE s

TrimSpace(s) == TrimRight(TrimLeft(s))

\* root.go:440-451: ReadString('\n') fails when the input ends before "\n"
confirm_AlwaysYes(stdin) == TRUE

confirm(stdin) ==
    IF ~HasSuffix(stdin, "\n") THEN FALSE
    ELSE LET response == TrimSpace(ToLower(stdin))
         IN  response = "" \/ response = "y" \/ response = "yes"

(***************************************************************************)
(* checkRestartRequired (Go): the lines it prints                          *)
(***************************************************************************)
WildFlyRoot == "/opt/wildfly"
ProjectNames == {"sinfomar", "other"}

\* root.go:234-271
checkRestartRequired(rules, tree, isGlobal, artifactName, mode, projectName) ==
    LET r == determineRestartRequirement(rules, tree, isGlobal, artifactName)
        severity == r[1]
        reason == r[2]
    IN  IF severity = "none"
        THEN << "", "NO RESTART NEEDED", "Reason: " \o reason >>
        ELSE << "" >>
             \o (IF severity = "recommended"
                 THEN << "RESTART RECOMMENDED", "Reason: " \o reason >>
                 ELSE IF severity = "required"
                 THEN << "RESTART REQUIRED", "Reason: " \o reason >>
                 ELSE << >>)
             \o << "", "Restart command:",
                   "  cd " \o Join2(WildFlyRoot, "bin"),
                   "  ./jboss-cli.sh --connect"
                      \o (IF mode = "domain" THEN " controller=localhost" ELSE "")
                      \o " --command=\":shutdown\"" >>
             \o (IF projectName = "sinfomar" THEN << "  sin-wildfly" >>
                 ELSE IF projectName = "mto" THEN << "  mto-wildfly" >>
                 ELSE << >>)

(***************************************************************************)
(* The commands as runs: go deploy (deploy.go runDeploy + root.go Deploy), *)
(* js deploy and js build (cli part of builder.js, part_002, builder.js).  *)
(* Environment facts known before the run are drawn in Init; the answer    *)
(* typed at the prompt and the outcome of every OS call are drawn at the   *)
(* step that makes the call.                                               *)
(***************************************************************************)
Startups == {"ok", "config error", "detect error"}

\* restart rules used by the runs
RunRules ==
    { NilRules,
      [isNil |-> FALSE, GlobalModule |-> TRUE,
       Patterns |-> << RestartPattern("EJB", "required") >>],
      [isNil |-> FALSE, GlobalModule |-> FALSE,
       Patterns |-> << RestartPattern("EJB", "info") >>] }

NoClient == [user |-> "", host |-> "", wildfly_path |-> "", restart_cmd |-> ""]
TheClient == CHOOSE c \in Clients : c.user = "deploy"

\* JS restartRules: without patterns (!restartRules || !restartRules.patterns),
\* or with a list of {match (glob), severity, reason}
NoJsRules == [isNull |-> TRUE, patterns |-> << >>]
JsRules(patterns) == [isNull |-> FALSE, patterns |-> patterns]
JsPatterns ==
    << [match |-> "**/*.xml", severity |-> "recommended", reason |-> "descriptor changed"],
       [match |-> "**/persistence.xml", severity |-> "required", reason |-> "persistence unit changed"] >>

\* client names a JS project may configure, and their settings
ClientByName(name) ==
    IF name = "alpha" THEN TheClient
    ELSE CHOOSE c \in Clients : c.user = "root"

GoDeployInputs ==
    [cmd : {"go deploy"},
     startup : Startups,
     artifactPath : {"target/EJBPcs.jar"},
     artifactExists : BOOLEAN,
     isGlobal : BOOLEAN,
     mode : Modes,
     dirExists : BOOLEAN,
     rules : RunRules,
     remote : {NoClient, TheClient},
     projectName : ProjectNames,
     packaging : {"jar"},
     restartRules : {NoJsRules},
     clients : {<<>>},
     defaultClient : {""},
     clientOpt : {""}]

Println(ls) == out' = out \o ls

\* the error is reported but the process ends with status zero
Fail_ExitZero(msg) ==
    /\ Println(<< "Error: " \o msg >>)
    /\ exit' = "zero"
    /\ pc' = "exited"

\* an error returned to cobra / thrown to the command's catch: reported, and
\* the process exits 1 (root.go:26-30, builder.js:356-359, 394-397)
Fail(msg) ==
    /\ Println(<< "Error: " \o msg >>)
    /\ exit' = "nonzero"
    /\ pc' = "exited"

FsOp(op, path, ok) == fsops' = Append(fsops, [op |-> op, path |-> path, ok |-> ok])
Exec(cmd, ok) == procs' = Append(procs, [cmd |-> cmd, ok |-> ok])

IsGo == input.cmd = "go deploy"

GoStandaloneDir == Join3(WildFlyRoot, "standalone", "deployments")
GoGlobalDir == Join2(WildFlyRoot, "modules/ejbmto/main")

\* deploy.go:38-56: load the configuration and detect the project
GoRunDeploy ==
    /\ IsGo /\ pc = "start"
    /\ IF input.startup = "ok"
       THEN /\ pc' = "stat"
            /\ UNCHANGED <<out, exit>>
       ELSE Fail(IF input.startup = "config error"
                 THEN "failed to load config" ELSE "failed to detect project")
    /\ UNCHANGED <<input, result, fsops, procs, confirmed>>

\* showDeploymentPlan, root.go:110-138
showDeploymentPlan(artifactName, isGlobal, mode) ==
    << "", "LOCAL DEPLOYMENT" >>
    \o (IF isGlobal
        THEN << "Target: " \o GoGlobalDir, "  1. cp " \o artifactName \o " " \o GoGlobalDir >>
        ELSE IF mode = "domain"
        THEN << "  1. jboss-cli.sh undeploy (if exists)", "  2. jboss-cli.sh deploy" >>
        ELSE << "Target: " \o GoStandaloneDir,
                "  1. cp " \o artifactName \o " " \o GoStandaloneDir,
                "  2. touch " \o GoStandaloneDir \o "/" \o artifactName \o ".dodeploy" >>)

\* root.go:71-78 without the os.Stat check of lines 65-69
GoStatAndPlan_NoStat ==
    /\ IsGo /\ pc = "stat"
    /\ Println(showDeploymentPlan(Base(input.artifactPath), input.isGlobal, input.mode))
    /\ pc' = "confirm"
    /\ UNCHANGED <<input, result, fsops, procs, confirmed, exit>>

\* root.go:63-78: os.Stat of the artifact, then the plan
GoStatAndPlan ==
    /\ IsGo /\ pc = "stat"
    /\ IF ~input.artifactExists
       THEN Fail("deployment failed: artifact not found")
       ELSE /\ Println(showDeploymentPlan(Base(input.artifactPath), input.isGlobal, input.mode))
            /\ pc' = "confirm"
            /\ UNCHANGED exit
    /\ UNCHANGED <<input, result, fsops, procs, confirmed>>

\* root.go:80-96, accepted prompt continuing into the deployment although the
\* answer declined
GoConfirm_Ignored ==
    /\ IsGo /\ pc = "confirm"
    /\ \E stdin \in Stdins :
         /\ confirmed' = IF confirm(stdin) THEN "accepted" ELSE "declined"
         /\ Println(<< "Proceed? [Y/n] " \o stdin >>)
         /\ pc' = IF input.isGlobal THEN "mkdir"
                  ELSE IF input.mode = "domain" THEN "undeploy" ELSE "copy"
         /\ UNCHANGED exit
    /\ UNCHANGED <<input, result, fsops, procs>>

\* root.go:80-96: the prompt and the dispatch on its answer
GoConfirm ==
    /\ IsGo /\ pc = "confirm"
    /\ \E stdin \in Stdins :
         IF confirm(stdin)
         THEN /\ confirmed' = "accepted"
              /\ Println(<< "Proceed? [Y/n] " \o stdin >>)
              /\ pc' = IF input.isGlobal THEN "mkdir"
                       ELSE IF input.mode = "domain" THEN "undeploy" ELSE "copy"
              /\ UNCHANGED exit
         ELSE /\ confirmed' = "declined"
              /\ Println(<< "Proceed? [Y/n] " \o stdin, "Deployment cancelled." >>)
              /\ exit' = "zero"
              /\ pc' = "exited"
    /\ UNCHANGED <<input, result, fsops, procs>>

\* root.go:141-151: os.MkdirAll of the global module directory
GoMkdirAll ==
    /\ IsGo /\ pc = "mkdir"
    /\ \E ok \in BOOLEAN :
         /\ FsOp("mkdir", GoGlobalDir, ok)
         /\ IF ok
            THEN pc' = "copy global" /\ UNCHANGED <<out, exit>>
            ELSE Fail("deployment failed: failed to create target directory")
    /\ UNCHANGED <<input, result, procs, confirmed>>

\* root.go:153-158 returning nil although copyFile failed
GoCopyGlobal_IgnoreError ==
    /\ IsGo /\ pc = "copy global"
    /\ \E ok \in BOOLEAN :
         FsOp("copy", Join2(GoGlobalDir, Base(input.artifactPath)), ok)
    /\ pc' = "finish"
    /\ UNCHANGED <<input, result, procs, out, confirmed, exit>>

\* root.go:153-158: copyFile into the global module directory
GoCopyGlobal ==
    /\ IsGo /\ pc = "copy global"
    /\ \E ok \in BOOLEAN :
         /\ FsOp("copy", Join2(GoGlobalDir, Base(input.artifactPath)), ok)
         /\ IF ok
            THEN pc' = "finish" /\ UNCHANGED <<out, exit>>
            ELSE Fail("deployment failed: failed to copy artifact")
    /\ UNCHANGED <<input, result, procs, confirmed>>

\* root.go:175-182: jboss-cli undeploy; its failure is only reported
GoUndeploy ==
    /\ IsGo /\ pc = "undeploy"
    /\ \E ok \in BOOLEAN :
         /\ Exec("jboss-cli.sh undeploy", ok)
         /\ Println(<< "Undeploying existing deployment (if any)..." >>
                  \o (IF ok THEN << >>
                      ELSE << "   (No existing deployment found or undeploy failed - continuing)" >>))
    /\ pc' = "cli deploy"
    /\ UNCHANGED <<input, result, fsops, confirmed, exit>>

\* root.go:184-195 returning nil whatever the deploy subprocess did
GoCliDeploy_IgnoreError ==
    /\ IsGo /\ pc = "cli deploy"
    /\ \E ok \in BOOLEAN : Exec("jboss-cli.sh deploy", ok)
    /\ pc' = "finish"
    /\ UNCHANGED <<input, result, fsops, out, confirmed, exit>>

\* root.go:184-195: jboss-cli deploy
GoCliDeploy ==
    /\ IsGo /\ pc = "cli deploy"
    /\ \E ok \in BOOLEAN :
         /\ Exec("jboss-cli.sh deploy", ok)
         /\ IF ok
            THEN pc' = "finish" /\ UNCHANGED <<out, exit>>
            ELSE Fail("deployment failed: deployment failed")
    /\ UNCHANGED <<input, result, fsops, confirmed>>

\* root.go:199-209 going on to the marker although the copy failed
GoCopyStandalone_NoCheck ==
    /\ IsGo /\ pc = "copy"
    /\ \E ok \in (IF input.dirExists THEN BOOLEAN ELSE {FALSE}) :
         FsOp("copy", Join2(GoStandaloneDir, Base(input.artifactPath)), ok)
    /\ pc' = "marker"
    /\ UNCHANGED <<input, result, procs, out, confirmed, exit>>

\* root.go:199-209: copyFile into standalone/deployments; the directory is
\* not created, so the copy cannot succeed when it is missing
GoCopyStandalone ==
    /\ IsGo /\ pc = "copy"
    /\ \E ok \in (IF input.dirExists THEN BOOLEAN ELSE {FALSE}) :
         /\ FsOp("copy", Join2(GoStandaloneDir, Base(input.artifactPath)), ok)
         /\ IF ok
            THEN pc' = "marker" /\ UNCHANGED <<out, exit>>
            ELSE Fail("deployment failed: failed to copy artifact")
    /\ UNCHANGED <<input, result, procs, confirmed>>

\* root.go:211-215: the .dodeploy marker
GoWriteMarker ==
    /\ IsGo /\ pc = "marker"
    /\ \E ok \in BOOLEAN :
         /\ FsOp("write", Join2(GoStandaloneDir, Base(input.artifactPath)) \o ".dodeploy", ok)
         /\ IF ok
            THEN pc' = "poll" /\ UNCHANGED <<out, exit>>
            ELSE Fail("deployment failed: failed to create .dodeploy marker")
    /\ UNCHANGED <<input, result, procs, confirmed>>

\* root.go:217-230 returning an error when the .failed marker is found
GoPoll_FailedIsError ==
    /\ IsGo /\ pc = "poll"
    /\ \E marker \in {"deployed", "failed", "none"} :
         IF marker = "failed"
         THEN Fail("deployment failed: deployment failed")
         ELSE /\ Println(<< "Waiting for deployment..." >>
                         \o (IF marker = "deployed"
                             THEN << Base(input.artifactPath) \o ".deployed found" >>
                             ELSE << >>))
              /\ pc' = "finish"
              /\ UNCHANGED exit
    /\ UNCHANGED <<input, result, fsops, procs, confirmed>>

\* root.go:217-230: one sleep, one look at the .deployed / .failed markers
GoPoll ==
    /\ IsGo /\ pc = "poll"
    /\ \E marker \in {"deployed", "failed", "none"} :
         Println(<< "Waiting for deployment..." >>
               \o (IF marker = "deployed" THEN << Base(input.artifactPath) \o ".deployed found" >>
                   ELSE IF marker = "failed" THEN << "Deployment failed - check server logs" >>
                   ELSE << >>))
    /\ pc' = "finish"
    /\ UNCHANGED <<input, result, fsops, procs, confirmed, exit>>

\* root.go:98-106 with a guide that runs its first command instead of
\* printing it
GoFinish_RunsGuide ==
    /\ IsGo /\ pc = "finish"
    /\ Println(<< "Deployed successfully" >>
             \o checkRestartRequired(input.rules, <<".">>, input.isGlobal,
                                     Base(input.artifactPath), input.mode, input.projectName)
             \o (IF input.remote = NoClient THEN << >>
                 ELSE showRemoteGuide(input.remote, input.mode, "main-server-group",
                                      "modules/ejbmto/main", input.artifactPath,
                                      Base(input.artifactPath), input.isGlobal)))
    /\ IF input.remote = NoClient THEN UNCHANGED procs
       ELSE Exec("scp " \o input.artifactPath, TRUE)
    /\ exit' = "zero"
    /\ pc' = "exited"
    /\ UNCHANGED <<input, result, fsops, confirmed>>

\* root.go:98-106: success message, restart check, remote guide
GoFinish ==
    /\ IsGo /\ pc = "finish"
    /\ Println(<< "Deployed successfully" >>
             \o checkRestartRequired(input.rules, <<".">>, input.isGlobal,
                                     Base(input.artifactPath), input.mode, input.projectName)
             \o (IF input.remote = NoClient THEN << >>
                 ELSE showRemoteGuide(input.remote, input.mode, "main-server-group",
                                      "modules/ejbmto/main", input.artifactPath,
                                      Base(input.artifactPath), input.isGlobal)))
    /\ exit' = "zero"
    /\ pc' = "exited"
    /\ UNCHANGED <<input, result, fsops, procs, confirmed>>

GoDeploy ==
    \/ GoRunDeploy \/ GoStatAndPlan \/ GoConfirm
    \/ GoMkdirAll \/ GoCopyGlobal
    \/ GoUndeploy \/ GoCliDeploy
    \/ GoCopyStandalone \/ GoWriteMarker \/ GoPoll
    \/ GoFinish

(***************************************************************************)
(* JS variant                                                              *)
(***************************************************************************)
IsJsDeploy == input.cmd = "js deploy"
IsJsBuild  == input.cmd = "js build"

\* utils.js:6-18 on top of readline: the answer is the line without its
\* terminator; an input that ends inside a line still delivers that line;
\* an input that ends with nothing typed closes the interface and the
\* callback is never called
jsAnswered(stdin) == stdin # ""

jsAnswer(stdin) ==
    IF HasSuffix(stdin, "\n") THEN SubSeq(stdin, 1, Len(stdin) - 1) ELSE stdin

jsConfirm(stdin) ==
    LET answer == jsAnswer(stdin)
    IN  ToLower(answer) = "y" \/ ToLower(answer) = "yes"

\* part_002:249-257
getWildflyConfig(wildfly_mode) ==
    [root |-> WildFlyRoot,
     mode |-> IF wildfly_mode = "" THEN "standalone" ELSE wildfly_mode,
     serverGroup |-> "main-server-group"]

JsMode == getWildflyConfig(input.mode).mode

\* the directory the deployment copies into
\* (part_002:159, 196, 225)
JsTargetDir ==
    IF input.isGlobal THEN Join2(WildFlyRoot, "modules/ejbmto/main")
    ELSE IF JsMode = "standalone" THEN Join3(WildFlyRoot, "standalone", "deployments")
    ELSE Join3(WildFlyRoot, "domain", "deployments")

\* a throw inside deployArtifact / buildModule: reported there, rethrown,
\* reported by the command's catch, process.exit(1)
\* (part_002:148-151, builder.js:56-59, 356-359, 394-397)
JsThrow(before, where, msg) ==
    /\ Println(before \o << where \o " " \o msg, "Error: " \o msg >>)
    /\ exit' = "nonzero"
    /\ pc' = "exited"

\* an error thrown in a command action after its heading was printed: the
\* action's catch reports it and calls process.exit(1)
\* (builder.js:303, 356-359, 371, 394-397)
JsCatch(heading, msg) ==
    /\ Println(<< heading, "Error: " \o msg >>)
    /\ exit' = "nonzero"
    /\ pc' = "exited"

\* builder.js:369-387 and part_002:96-112: load, detect, validate, plan
JsDeployStart ==
    /\ IsJsDeploy /\ pc = "start"
    /\ IF input.startup # "ok"
       THEN JsCatch("=== JMW Deploy ===",
                    IF input.startup = "config error"
                    THEN "Failed to load config" ELSE "project not detected")
       ELSE IF ~input.artifactExists
       THEN JsCatch("=== JMW Deploy ===", "Artifact not found: " \o input.artifactPath)
       ELSE /\ Println(<< "=== JMW Deploy ===", "=== Deployment Plan ===",
                          "Type: " \o (IF input.isGlobal THEN "Global Module"
                                       ELSE "Normal Deployment"),
                          "Mode: " \o JsMode >>)
            /\ pc' = "confirm"
            /\ UNCHANGED exit
    /\ UNCHANGED <<input, result, fsops, procs, confirmed>>

\* part_002:114-119 and builder.js:392
JsDeployConfirm ==
    /\ IsJsDeploy /\ pc = "confirm"
    /\ \E stdin \in Stdins :
         IF ~jsAnswered(stdin)
         THEN /\ confirmed' = "unanswered"
              /\ Println(<< "Proceed with deployment? (y/N) " >>)
              /\ exit' = "zero"
              /\ pc' = "exited"
         ELSE IF jsConfirm(stdin)
         THEN /\ confirmed' = "accepted"
              /\ Println(<< "Proceed with deployment? (y/N) " \o stdin >>)
              /\ pc' = "mkdir"
              /\ UNCHANGED exit
         ELSE /\ confirmed' = "declined"
              /\ Println(<< "Proceed with deployment? (y/N) " \o stdin,
                            "Deployment cancelled", "=== Deploy Complete ===" >>)
              /\ exit' = "zero"
              /\ pc' = "exited"
    /\ UNCHANGED <<input, result, fsops, procs>>

\* part_002:157-169, 195-206, 223-236: headings, then mkdirSync when the
\* target directory does not exist
JsMkdir ==
    /\ IsJsDeploy /\ pc = "mkdir"
    /\ LET heading ==
             IF input.isGlobal THEN << "=== Global Module Deployment ===" >>
             ELSE IF JsMode = "standalone" THEN << "=== Normal Deployment ===" >>
             ELSE << "=== Normal Deployment ===", "Use jboss-cli.sh to deploy:",
                     "  deploy " \o input.artifactPath \o " --server-groups="
                        \o getWildflyConfig(input.mode).serverGroup >>
       IN  IF input.dirExists
           THEN /\ Println(heading)
                /\ pc' = "copy"
                /\ UNCHANGED <<fsops, exit>>
           ELSE \E ok \in BOOLEAN :
                  /\ FsOp("mkdir", JsTargetDir, ok)
                  /\ IF ok
                     THEN Println(heading) /\ pc' = "copy" /\ UNCHANGED exit
                     ELSE JsThrow(heading, "Deployment failed:", "mkdir failed")
    /\ UNCHANGED <<input, result, procs, confirmed>>

\* part_002:208-217 applied to every normal deployment: the copy goes on to
\* the .dodeploy marker in domain mode too
JsCopy_MarkerInDomain ==
    /\ IsJsDeploy /\ pc = "copy"
    /\ \E ok \in BOOLEAN :
         /\ FsOp("copy", Join2(JsTargetDir, Base(input.artifactPath)), ok)
         /\ IF ok
            THEN /\ pc' = IF ~input.isGlobal THEN "marker" ELSE "finish"
                 /\ UNCHANGED <<out, exit>>
            ELSE JsThrow(<< >>, "Deployment failed:", "copy failed")
    /\ UNCHANGED <<input, result, procs, confirmed>>

\* part_002:171-174, 208-210, 238-241: copyFileSync
JsCopy ==
    /\ IsJsDeploy /\ pc = "copy"
    /\ \E ok \in BOOLEAN :
         /\ FsOp("copy", Join2(JsTargetDir, Base(input.artifactPath)), ok)
         /\ IF ok
            THEN /\ pc' = IF ~input.isGlobal /\ JsMode = "standalone"
                          THEN "marker" ELSE "finish"
                 /\ UNCHANGED <<out, exit>>
            ELSE JsThrow(<< >>, "Deployment failed:", "copy failed")
    /\ UNCHANGED <<input, result, procs, confirmed>>

\* part_002:212-217: writeFileSync of the .dodeploy marker (standalone only)
JsWriteMarker ==
    /\ IsJsDeploy /\ pc = "marker"
    /\ \E ok \in BOOLEAN :
         /\ FsOp("write", Join2(JsTargetDir, Base(input.artifactPath) \o ".dodeploy"), ok)
         /\ IF ok
            THEN pc' = "finish" /\ UNCHANGED <<out, exit>>
            ELSE JsThrow(<< >>, "Deployment failed:", "marker write failed")
    /\ UNCHANGED <<input, result, procs, confirmed>>

\* part_002:262-281
showRestartGuidanceDeploy(mode, isGlobalModule) ==
    << "=== Restart Guidance ===",
       IF isGlobalModule THEN "Restart required: YES" ELSE "Restart required: Check deployment",
       "Restart command:",
       IF mode = "standalone" THEN "  " \o WildFlyRoot \o "/bin/shutdown.sh --restart"
       ELSE "  " \o WildFlyRoot \o "/bin/domain.sh --restart" >>

\* does the project configure a client of this name
\* (projectConfig.clients && projectConfig.clients[name])
HasClient(clients, name) == \E i \in 1..Len(clients) : clients[i] = name

\* part_002:131-146 and builder.js:392
JsDeployFinish ==
    /\ IsJsDeploy /\ pc = "finish"
    /\ Println(<< "Deployment completed", "=== What Was Done ===" >>
               \o showRestartGuidanceDeploy(JsMode, input.isGlobal)
               \o (IF input.defaultClient # "" /\ HasClient(input.clients, input.defaultClient)
                   THEN << "=== Remote Deployment Instructions ===" >>
                        \o showRemoteDeploymentGuide(input.artifactPath, JsMode,
                              ClientByName(input.defaultClient), input.isGlobal,
                              "modules/ejbmto/main")
                   ELSE << >>)
               \o << "=== Deploy Complete ===" >>)
    /\ exit' = "zero"
    /\ pc' = "exited"
    /\ UNCHANGED <<input, result, fsops, procs, confirmed>>

JsDeploy ==
    \/ JsDeployStart \/ JsDeployConfirm \/ JsMkdir \/ JsCopy \/ JsWriteMarker
    \/ JsDeployFinish

\* micromatch.isMatch restricted to the globs the modelled rules use:
\* "**/*<suffix>" (any file whose name ends in the suffix, dot files
\* excluded), "**/<path>" (that path below any directory) and literal paths
globMatch(file, glob) ==
    IF HasPrefix(glob, "**/*")
    THEN LET suffix == SubSeq(glob, 5, Len(glob))
             name == Base(file)
         IN  HasSuffix(name, suffix) /\ ~HasPrefix(name, ".")
    ELSE IF HasPrefix(glob, "**/")
    THEN LET rest == SubSeq(glob, 4, Len(glob))
         IN  file = rest \/ HasSuffix(file, "/" \o rest)
    ELSE file = glob

\* builder.js:186 without the severity comparison: the first matching rule
\* is kept
severityBefore_Never(a, b) == FALSE

\* builder.js:180: severityOrder = { required: 1, recommended: 2 }; a
\* severity without an entry compares false both ways
severityBefore(a, b) ==
    \/ a = "required" /\ b = "recommended"

\* builder.js:182-191 for one file: the rule kept after rules[1..n]
RECURSIVE keptRule(_, _, _)
keptRule(file, rules, n) ==
    IF n = 0 THEN <<>>
    ELSE LET existing == keptRule(file, rules, n - 1)
             rule == rules[n]
         IN  IF globMatch(file, rule.match)
                /\ (existing = <<>> \/ severityBefore(rule.severity, existing[1].severity))
             THEN << rule >>
             ELSE existing

\* builder.js:161-170
filterToModule(modifiedFiles, relativePath) ==
    SelectSeq(modifiedFiles,
              LAMBDA f : IF relativePath # "" THEN HasPrefix(f, relativePath \o "/") ELSE TRUE)

\* builder.js:125-147 with the packaging check made before the global
\* module check
guidanceWithoutGit_WarFirst(isGlobalModule, packaging, restartRules) ==
    IF packaging = "war" THEN << "Restart required: NO", "Reason: WAR hot-deployment" >>
    ELSE IF isGlobalModule THEN << "Restart required: YES", "Reason: Global module deployment" >>
    ELSE IF restartRules.isNull
    THEN << "Restart required: CHECK MANUALLY", "Reason: No restart rules configured" >>
    ELSE << >>

\* builder.js:125-147: the checks made before git is asked
guidanceWithoutGit(isGlobalModule, packaging, restartRules) ==
    IF isGlobalModule THEN << "Restart required: YES", "Reason: Global module deployment" >>
    ELSE IF packaging = "war" THEN << "Restart required: NO", "Reason: WAR hot-deployment" >>
    ELSE IF restartRules.isNull
    THEN << "Restart required: CHECK MANUALLY", "Reason: No restart rules configured" >>
    ELSE << >>

\* builder.js:210-214: the two lines printed for each kept match, in the
\* order of the files (git lists a file once)
RECURSIVE matchLines(_, _, _)
matchLines(filteredFiles, restartRules, n) ==
    IF n = 0 THEN << >>
    ELSE LET file == filteredFiles[n]
             kept == keptRule(file, restartRules, Len(restartRules))
         IN  matchLines(filteredFiles, restartRules, n - 1)
             \o (IF kept = << >> THEN << >>
                 ELSE << (IF kept[1].severity = "required" THEN "  [REQUIRED] "
                          ELSE "  [RECOMMENDED] ") \o file,
                         "    Reason: " \o kept[1].reason >>)

\* builder.js:153-215: the verdict once git diff returned the modified files
guidanceFromDiff(modifiedFiles, relativePath, restartRules) ==
    LET filteredFiles == filterToModule(modifiedFiles, relativePath)
        kept == [i \in 1..Len(filteredFiles) |->
                    keptRule(filteredFiles[i], restartRules, Len(restartRules))]
        matched == { i \in 1..Len(filteredFiles) : kept[i] # <<>> }
    IN  IF Len(modifiedFiles) = 0
        THEN << "Restart required: NO", "Reason: No files modified" >>
        ELSE IF Len(filteredFiles) = 0
        THEN << "Restart required: NO", "Reason: No files modified in target module" >>
        ELSE IF matched = {}
        THEN << "Restart required: NO", "Reason: No critical files modified" >>
        ELSE (IF \E i \in matched : kept[i][1].severity = "required"
              THEN << "Restart required: YES" >>
              ELSE << "Restart required: RECOMMENDED" >>)
             \o matchLines(filteredFiles, restartRules, Len(filteredFiles))
             \o << "" >>

\* what `git diff --name-only HEAD` may list
ModifiedFileSets ==
    { << >>,
      << "web/src/Foo.java" >>,
      << "EJBPcs/src/META-INF/persistence.xml", "web/src/Foo.java" >>,
      << "EJBPcs/src/META-INF/persistence.xml", "EJBPcs/src/Bean.java" >>,
      << "EJBPcs/src/META-INF/ejb-jar.xml" >>,
      << "EJBPcsWeb/src/web.xml" >> }

RelativePath == "EJBPcs"

\* config.js:58-67 returning null for a name the project does not configure
getClientConfig_NullForUnknown(clients, clientName) ==
    IF clientName = "" THEN ""
    ELSE IF ~HasClient(clients, clientName) THEN ""
    ELSE clientName

\* config.js:58-67: "" for null, "unknown" for the thrown 'Client not
\* found', otherwise the configured client (by its name)
getClientConfig(clients, clientName) ==
    IF clientName = "" THEN ""
    ELSE IF ~HasClient(clients, clientName) THEN "unknown"
    ELSE clientName

\* builder.js:311-325 with default_client looked at before --client
selectClient_DefaultFirst(clients, defaultClient, clientOpt) ==
    IF defaultClient # "" THEN getClientConfig(clients, defaultClient)
    ELSE IF clientOpt # "" THEN getClientConfig(clients, clientOpt)
    ELSE IF Len(clients) > 0 THEN getClientConfig(clients, clients[1])
    ELSE ""

\* builder.js:311-325: the client the build command uses
selectClient(clients, defaultClient, clientOpt) ==
    IF clientOpt # "" THEN getClientConfig(clients, clientOpt)
    ELSE IF defaultClient # "" THEN getClientConfig(clients, defaultClient)
    ELSE IF Len(clients) > 0 THEN getClientConfig(clients, clients[1])
    ELSE ""

SelectedClient == selectClient(input.clients, input.defaultClient, input.clientOpt)

\* builder.js:331-339: the line that names the client in use
clientLine(clientName, defaultClient, clientOpt) ==
    IF clientName = "" THEN << >>
    ELSE IF clientOpt # "" THEN << "Client: " \o clientName >>
    ELSE IF defaultClient # "" THEN << "Client: " \o clientName \o " (default)" >>
    ELSE << "Client: " \o clientName \o " (first available)" >>

\* builder.js:301-340 and 13-32: load, detect, client lookup, build plan
JsBuildStart ==
    /\ IsJsBuild /\ pc = "start"
    /\ IF input.startup # "ok"
       THEN JsCatch("=== JMW Build ===",
                    IF input.startup = "config error"
                    THEN "Failed to load config" ELSE "project not detected")
       ELSE IF SelectedClient = "unknown"
       THEN JsCatch("=== JMW Build ===", "Client not found")
       ELSE /\ Println(<< "=== JMW Build ===" >>
                       \o clientLine(SelectedClient, input.defaultClient, input.clientOpt)
                       \o << "=== Build Plan ===", "Packaging: " \o input.packaging,
                             "Command: mvn" >>)
            /\ pc' = "confirm"
            /\ UNCHANGED exit
    /\ UNCHANGED <<input, result, fsops, procs, confirmed>>

\* builder.js:34-39 and 343-354
JsBuildConfirm ==
    /\ IsJsBuild /\ pc = "confirm"
    /\ \E stdin \in Stdins :
         IF ~jsAnswered(stdin)
         THEN /\ confirmed' = "unanswered"
              /\ Println(<< "Proceed with build? (y/N) " >>)
              /\ exit' = "zero"
              /\ pc' = "exited"
         ELSE IF jsConfirm(stdin)
         THEN /\ confirmed' = "accepted"
              /\ Println(<< "Proceed with build? (y/N) " \o stdin >>)
              /\ pc' = "mvn"
              /\ UNCHANGED exit
         ELSE /\ confirmed' = "declined"
              /\ Println(<< "Proceed with build? (y/N) " \o stdin,
                            "Build cancelled", "=== Build Complete ===" >>)
              /\ exit' = "zero"
              /\ pc' = "exited"
    /\ UNCHANGED <<input, result, fsops, procs>>

\* builder.js:41-59: the mvn subprocess
JsMvn ==
    /\ IsJsBuild /\ pc = "mvn"
    /\ \E ok \in BOOLEAN :
         /\ Exec("mvn", ok)
         /\ IF ok
            THEN /\ Println(<< "Build completed successfully" >>)
                 /\ pc' = "artifacts"
                 /\ UNCHANGED exit
            ELSE JsThrow(<< >>, "Build failed:", "mvn failed")
    /\ UNCHANGED <<input, result, fsops, confirmed>>

\* builder.js:228-254 and 125-147: list the artifacts found under target/,
\* then the restart checks that need no git
JsArtifacts ==
    /\ IsJsBuild /\ pc = "artifacts"
    /\ \E found \in BOOLEAN :
         LET early == guidanceWithoutGit(input.isGlobal, input.packaging, input.restartRules)
         IN  /\ result' = [kind |-> "build",
                           artifactPath |-> IF found THEN input.artifactPath ELSE ""]
             /\ Println(<< "=== Artifacts ===",
                           IF found THEN "  " \o input.artifactPath ELSE "No artifacts found",
                           "=== Restart Guidance ===" >> \o early)
             /\ pc' = IF early = << >> THEN "git" ELSE "finish"
    /\ UNCHANGED <<input, fsops, procs, confirmed, exit>>

\* builder.js:149-222: git diff through simple-git; its failure is caught
JsGitDiff ==
    /\ IsJsBuild /\ pc = "git"
    /\ \/ /\ Exec("git diff --name-only HEAD", FALSE)
          /\ Println(<< "Restart required: CHECK MANUALLY",
                        "Reason: Unable to detect file changes" >>)
       \/ \E modifiedFiles \in ModifiedFileSets :
            /\ Exec("git diff --name-only HEAD", TRUE)
            /\ Println(guidanceFromDiff(modifiedFiles, RelativePath, input.restartRules.patterns))
    /\ pc' = "finish"
    /\ UNCHANGED <<input, result, fsops, confirmed, exit>>

\* builder.js:345-354
JsBuildFinish ==
    /\ IsJsBuild /\ pc = "finish"
    /\ Println((IF SelectedClient # "" /\ result.artifactPath # ""
                THEN << "=== Remote Deployment Commands ===" >>
                     \o showRemoteDeploymentGuide(result.artifactPath, JsMode,
                           ClientByName(SelectedClient), input.isGlobal,
                           "modules/ejbmto/main")
                ELSE << >>)
               \o << "=== Build Complete ===" >>)
    /\ exit' = "zero"
    /\ pc' = "exited"
    /\ UNCHANGED <<input, result, fsops, procs, confirmed>>

JsBuild ==
    \/ JsBuildStart \/ JsBuildConfirm \/ JsMvn \/ JsArtifacts \/ JsGitDiff
    \/ JsBuildFinish

JsDeployInputs ==
    [cmd : {"js deploy"},
     startup : Startups,
     artifactPath : {"target/EJBPcs.jar"},
     artifactExists : BOOLEAN,
     isGlobal : BOOLEAN,
     mode : Modes \cup {""},
     dirExists : BOOLEAN,
     rules : {NilRules},
     remote : {NoClient},
     projectName : {"sinfomar"},
     packaging : {"jar"},
     restartRules : {NoJsRules},
     clients : {<<>>, <<"alpha">>},
     defaultClient : {"", "alpha", "ghost"},
     clientOpt : {""}]

JsBuildInputs ==
    [cmd : {"js build"},
     startup : Startups,
     artifactPath : {"target/EJBPcs.jar"},
     artifactExists : {TRUE},
     isGlobal : BOOLEAN,
     mode : {"standalone"},
     dirExists : {TRUE},
     rules : {NilRules},
     remote : {NoClient},
     projectName : {"sinfomar"},
     packaging : {"war", "ejb"},
     restartRules : {NoJsRules, JsRules(JsPatterns)},
     clients : {<<>>, <<"alpha">>, <<"beta", "alpha">>},
     defaultClient : {"", "alpha", "ghost"},
     clientOpt : {"", "beta", "ghost"}]

Init ==
    /\ input \in GoDeployInputs \cup JsDeployInputs \cup JsBuildInputs
    /\ pc = "start"
    /\ result = NoResult
    /\ NoEffects

Next == GoDeploy \/ JsDeploy \/ JsBuild

Spec == Init /\ [][Next]_vars

Exited == pc = "exited"

(***************************************************************************)
(* loadConfig (JS): the three configuration sources                        *)
(***************************************************************************)
\* path.join(os.homedir(), '.config', 'jmw', 'config.yaml')
DefaultConfigPath == homedir \o "/.config/jmw/config.yaml"
\* path.join(process.cwd(), 'config.yaml')
LocalConfigPath == "/work/config.yaml"
\* the configPath argument: none, or an explicit file
ConfigPathArgs == {"", "/etc/jmw.yaml"}

\* import embeddedConfig from '../config.yaml'
embeddedConfig == Obj(<< Entry("wildfly_root", Str("~/embedded")) >>)

\* what a configuration file may be: absent; present but unreadable
\* (readFileSync throws); present with text yaml.load rejects; present with
\* text that parses to a document (an empty file parses to no value)
FileStates(root) ==
    { [state |-> "absent"], [state |-> "unreadable"], [state |-> "invalid"] }
    \cup { [state |-> "yaml", doc |-> d] :
             d \in { Obj(<< Entry("wildfly_root", Str(root)) >>),
                     Obj(<< Entry("clients", Arr(<< Str(root) >>)) >>),
                     Null } }

LoadInputs ==
    [fn : {"loadConfig"},
     configPath : ConfigPathArgs,
     user : FileStates("~/user"),
     local : FileStates("~/local")]

InitLoad ==
    /\ input \in LoadInputs
    /\ pc = "call"
    /\ result = NoResult
    /\ NoEffects

\* config.js:14-16
UserConfigPath ==
    IF input.configPath = "" THEN DefaultConfigPath ELSE input.configPath

\* config.js:21-22 and 34-36: yaml.load(fs.readFileSync(path)) inside the try
LoadFile(path, file) ==
    /\ FsOp("read", path, file.state # "unreadable")
    /\ result' = IF file.state = "yaml"
                 THEN [kind |-> "config", doc |-> expandPaths(file.doc)]
                 ELSE [kind |-> "error",
                       msg |-> "Failed to load config: "
                                 \o (IF file.state = "unreadable" THEN "EACCES"
                                     ELSE "YAMLException")]
    /\ pc' = "done"

\* config.js:20: fs.existsSync(configPath)
LoadExistsUser ==
    /\ pc = "call"
    /\ FsOp("exists", UserConfigPath, input.user.state # "absent")
    /\ pc' = IF input.user.state # "absent" THEN "read user" ELSE "exists local"
    /\ UNCHANGED <<input, result, procs, out, confirmed, exit>>

\* config.js:20-23 with a read or parse failure going on to the next source
LoadReadUser_FallThrough ==
    /\ pc = "read user"
    /\ IF input.user.state = "yaml"
       THEN LoadFile(UserConfigPath, input.user)
       ELSE /\ FsOp("read", UserConfigPath, input.user.state # "unreadable")
            /\ pc' = "exists local"
            /\ UNCHANGED result
    /\ UNCHANGED <<input, procs, out, confirmed, exit>>

\* config.js:20-23
LoadReadUser ==
    /\ pc = "read user"
    /\ LoadFile(UserConfigPath, input.user)
    /\ UNCHANGED <<input, procs, out, confirmed, exit>>

\* config.js:26-27
LoadExistsLocal ==
    /\ pc = "exists local"
    /\ FsOp("exists", LocalConfigPath, input.local.state # "absent")
    /\ pc' = IF input.local.state # "absent" THEN "read local" ELSE "embedded"
    /\ UNCHANGED <<input, result, procs, out, confirmed, exit>>

\* config.js:27-30
LoadReadLocal ==
    /\ pc = "read local"
    /\ LoadFile(LocalConfigPath, input.local)
    /\ UNCHANGED <<input, procs, out, confirmed, exit>>

\* config.js:33
LoadEmbedded ==
    /\ pc = "embedded"
    /\ result' = [kind |-> "config", doc |-> expandPaths(embeddedConfig)]
    /\ pc' = "done"
    /\ UNCHANGED <<input, effects>>

NextLoad ==
    \/ LoadExistsUser \/ LoadReadUser \/ LoadExistsLocal \/ LoadReadLocal
    \/ LoadEmbedded

SpecLoad == InitLoad /\ [][NextLoad]_vars

(***************************************************************************)
(* showRestartGuidance (JS build) as a function of its inputs              *)
(***************************************************************************)
MaxRules == 2

\* restart rules a project may configure: glob, severity, reason
JsRulePool ==
    { [match |-> m, severity |-> sv, reason |-> m \o " is " \o sv] :
        m \in {"**/*.xml", "**/persistence.xml", "**/*.java"},
        sv \in {"required", "recommended"} }

\* restartRules.patterns: missing, or a list of rules (possibly empty)
JsRestartRules == {NoJsRules} \cup { JsRules(ps) : ps \in SeqsUpTo(JsRulePool, MaxRules) }

\* git.diff: rejected (no git, no repository), or the modified files
GitOutcomes ==
    { [ok |-> FALSE, files |-> << >>] }
    \cup { [ok |-> TRUE, files |-> fs] : fs \in ModifiedFileSets }

\* builder.js:125-223: the lines printed
showRestartGuidance(isGlobalModule, packaging, restartRules, relativePath, git) ==
    LET early == guidanceWithoutGit(isGlobalModule, packaging, restartRules)
    IN  << "=== Restart Guidance ===" >>
        \o (IF early # << >> THEN early
            ELSE IF ~git.ok
            THEN << "Restart required: CHECK MANUALLY",
                    "Reason: Unable to detect file changes", "" >>
            ELSE guidanceFromDiff(git.files, relativePath, restartRules.patterns))

GuidanceInputs ==
    [fn : {"showRestartGuidance"},
     isGlobalModule : BOOLEAN,
     packaging : {"war", "ejb", "jar"},
     restartRules : JsRestartRules,
     relativePath : {"", RelativePath},
     git : GitOutcomes]

InitGuidance ==
    /\ input \in GuidanceInputs
    /\ pc = "call"
    /\ result = NoResult
    /\ NoEffects

ShowRestartGuidance ==
    /\ pc = "call"
    /\ result' = [kind |-> "lines",
                  lines |-> showRestartGuidance(input.isGlobalModule, input.packaging,
                                input.restartRules, input.relativePath, input.git)]
    /\ IF guidanceWithoutGit(input.isGlobalModule, input.packaging, input.restartRules) = << >>
       THEN Exec("git diff --name-only HEAD", input.git.ok)
       ELSE UNCHANGED procs
    /\ pc' = "done"
    /\ UNCHANGED <<input, fsops, out, confirmed, exit>>

NextGuidance == ShowRestartGuidance

SpecGuidance == InitGuidance /\ [][NextGuidance]_vars

(***************************************************************************)
(* buildMavenCommand and getProfiles (JS build)                            *)
(***************************************************************************)
\* projectConfig.maven_profiles: missing, or a mapping from a profile name
\* ('' for the default) to a list of Maven profiles
NoMavenProfiles == [isNull |-> TRUE, entries |-> << >>]
MavenProfiles(es) == [isNull |-> FALSE, entries |-> es]

MavenProfileMaps ==
    { NoMavenProfiles,
      MavenProfiles(<< >>),
      MavenProfiles(<< Entry("", << "dev" >>) >>),
      MavenProfiles(<< Entry("TEST", << "test", "local" >>) >>),
      MavenProfiles(<< Entry("TEST", << >>) >>),
      MavenProfiles(<< Entry("", << "dev" >>), Entry("PROD", << "prod", "minify", "sign" >>) >>) }

\* the profile argument; "" is no profile given
ProfileArgs == {"", "none", "TEST", "PROD"}

\* Array.prototype.join(',')
RECURSIVE JoinComma(_)
JoinComma(xs) ==
    IF Len(xs) = 0 THEN ""
    ELSE IF Len(xs) = 1 THEN xs[1]
    ELSE xs[1] \o "," \o JoinComma(Tail(xs))

\* builder.js:103-120; an array, even an empty one, is truthy
getProfiles(profile, maven_profiles) ==
    LET normalizedProfile == IF profile = "" \/ profile = "none" THEN "" ELSE profile
        found == { i \in 1..Len(maven_profiles.entries) :
                     maven_profiles.entries[i].key = normalizedProfile }
    IN  IF ~maven_profiles.isNull /\ found # {}
        THEN maven_profiles.entries[CHOOSE i \in found : TRUE].value
        ELSE IF normalizedProfile = "" THEN << >>
        ELSE << normalizedProfile >>

\* builder.js:65-98 with 'install' as the phase of every packaging
buildMavenCommand_AlwaysInstall(packaging, isReactorBuild, relativePath, profile, skipTests, maven_profiles) ==
    LET profiles == getProfiles(profile, maven_profiles)
    IN  << "clean", "install" >>
        \o (IF isReactorBuild THEN << "-pl", relativePath, "-am" >> ELSE << >>)
        \o (IF Len(profiles) > 0 THEN << "-P", JoinComma(profiles) >> ELSE << >>)
        \o (IF skipTests THEN << "-DskipTests=true" >> ELSE << >>)

\* builder.js:65-98
buildMavenCommand(packaging, isReactorBuild, relativePath, profile, skipTests, maven_profiles) ==
    LET profiles == getProfiles(profile, maven_profiles)
    IN  << "clean" >>
        \o (IF packaging = "war" THEN << "package" >> ELSE << "install" >>)
        \o (IF isReactorBuild THEN << "-pl", relativePath, "-am" >> ELSE << >>)
        \o (IF Len(profiles) > 0 THEN << "-P", JoinComma(profiles) >> ELSE << >>)
        \o (IF skipTests THEN << "-DskipTests=true" >> ELSE << >>)

MavenInputs ==
    [fn : {"buildMavenCommand"},
     packaging : {"war", "jar", "ejb"},
     isReactorBuild : BOOLEAN,
     relativePath : {RelativePath},
     profile : ProfileArgs,
     skipTests : BOOLEAN,
     maven_profiles : MavenProfileMaps]

InitMaven ==
    /\ input \in MavenInputs
    /\ pc = "call"
    /\ result = NoResult
    /\ NoEffects

BuildMavenCommand ==
    /\ pc = "call"
    /\ result' = [kind |-> "args",
                  args |-> buildMavenCommand(input.packaging, input.isReactorBuild,
                              input.relativePath, input.profile, input.skipTests,
                              input.maven_profiles)]
    /\ pc' = "done"
    /\ UNCHANGED <<input, effects>>

NextMaven == BuildMavenCommand

SpecMaven == InitMaven /\ [][NextMaven]_vars

GuideInputs ==
    [fn : {"showRemoteGuide", "showRemoteDeploymentGuide"},
     client : Clients,
     mode : Modes,
     serverGroup : ServerGroups,
     deploymentPath : DeploymentPaths,
     artifactPath : ArtifactPaths,
     isGlobal : BOOLEAN]

InitGuide ==
    /\ input \in GuideInputs
    /\ pc = "call"
    /\ result = NoResult
    /\ NoEffects

ShowRemoteGuide ==
    /\ pc = "call"
    /\ input.fn = "showRemoteGuide"
    /\ result' = [kind |-> "lines",
                  lines |-> showRemoteGuide(input.client, input.mode, input.serverGroup,
                                            input.deploymentPath, input.artifactPath,
                                            Base(input.artifactPath), input.isGlobal)]
    /\ pc' = "done"
    /\ UNCHANGED <<input, effects>>

ShowRemoteDeploymentGuide ==
    /\ pc = "call"
    /\ input.fn = "showRemoteDeploymentGuide"
    /\ result' = [kind |-> "lines",
                  lines |-> showRemoteDeploymentGuide(input.artifactPath, input.mode,
                                            input.client, input.isGlobal, input.deploymentPath)]
    /\ pc' = "done"
    /\ UNCHANGED <<input, effects>>

NextGuide == ShowRemoteGuide \/ ShowRemoteDeploymentGuide

SpecGuide == InitGuide /\ [][NextGuide]_vars

\* reading the printed guide
IsScp(l)  == HasPrefix(l, "   scp ")
IsTail(l) == HasPrefix(l, "   ssh ") /\ Contains(l, "tail ")
IsRestartSsh(l, c) == l = "   ssh " \o userAtHost(c) \o " \"" \o c.restart_cmd \o "\""
Count(ls, P(_)) == Cardinality({ i \in 1..Len(ls) : P(ls[i]) })
TheLine(ls, P(_)) == ls[CHOOSE i \in 1..Len(ls) : P(ls[i])]
ToUserHost(l, c) == Contains(l, " " \o userAtHost(c))
RefsAll(l, c) == Contains(l, c.user) /\ Contains(l, c.host) /\ Contains(l, c.wildfly_path)
Guided == pc = "done" /\ result.kind = "lines"

\* C6 as stated: in every mode and module kind the guide has exactly one scp,
\* exactly one ssh running the client's restart command and exactly one tail,
\* the scp and the tail referencing the client's user, host and WildFly path
\* and the restart ssh addressed to the client's user and host.
C6_OneScpRestartTail ==
    Guided =>
        LET ls == result.lines
            c  == input.client
        IN  /\ Count(ls, IsScp) = 1
            /\ Count(ls, LAMBDA l : IsRestartSsh(l, c)) = 1
            /\ Count(ls, IsTail) = 1
            /\ \A i \in 1..Len(ls) :
                 /\ (IsScp(ls[i]) \/ IsTail(ls[i])) => RefsAll(ls[i], c)
                 /\ IsRestartSsh(ls[i], c) => ToUserHost(ls[i], c)

\* C6 amended: exactly one scp and exactly one tail, both addressed to
\* user@host; the tail names a log under the client's WildFly path and the scp
\* targets a directory under it, except in the Go guide for a normal module in
\* domain mode, where the scp targets /tmp/; the Go guide has exactly one
\* restart ssh, the JS guide has exactly one for a global module and none
\* otherwise.
C6_Amended ==
    Guided =>
        LET ls == result.lines
            c  == input.client
            goDomainNormal == input.fn = "showRemoteGuide" /\ ~input.isGlobal
                                 /\ input.mode = "domain"
        IN  /\ Count(ls, IsScp) = 1
            /\ Count(ls, IsTail) = 1
            /\ ToUserHost(TheLine(ls, IsScp), c)
            /\ ToUserHost(TheLine(ls, IsTail), c)
            /\ Contains(TheLine(ls, IsTail), c.wildfly_path \o "/" \o input.mode \o "/log/server.log")
            /\ IF goDomainNormal
               THEN HasSuffix(TheLine(ls, IsScp), ":/tmp/")
               ELSE Contains(TheLine(ls, IsScp), ":" \o c.wildfly_path \o "/")
            /\ Count(ls, LAMBDA l : IsRestartSsh(l, c)) =
                 IF input.fn = "showRemoteGuide" \/ input.isGlobal THEN 1 ELSE 0

\* a JS guide for a normal module (no restart line) and a Go domain guide
\* (scp to /tmp/) have both been printed
C6_Witness ==
    /\ Guided
    /\ Count(result.lines, IsScp) = 1
    /\ \/ /\ input.fn = "showRemoteDeploymentGuide" /\ ~input.isGlobal
          /\ Count(result.lines, LAMBDA l : IsRestartSsh(l, input.client)) = 0
       \/ /\ input.fn = "showRemoteGuide" /\ ~input.isGlobal /\ input.mode = "domain"
          /\ HasSuffix(TheLine(result.lines, IsScp), ":/tmp/")

(***************************************************************************)
(* Properties of the command runs                                          *)
(***************************************************************************)
Printed(l) == \E i \in 1..Len(out) : out[i] = l
FsIdx == 1..Len(fsops)
ProcIdx == 1..Len(procs)

\* C7: nothing is created, copied, written or started unless the prompt was
\* accepted, and a declined prompt ends the run with status zero and no
\* filesystem mutation or subprocess.
C7_DeclineDoesNothing ==
    /\ (fsops # <<>> \/ procs # <<>>) => confirmed = "accepted"
    /\ confirmed = "declined" =>
         (fsops = <<>> /\ procs = <<>> /\ Exited /\ exit = "zero")

\* the prompt was reached and answered with a refusal
C7_Witness ==
    /\ confirmed = "declined" /\ Exited /\ exit = "zero"
    /\ Printed("=== Build Plan ===") \/ Printed("=== Deployment Plan ===")
         \/ Printed("LOCAL DEPLOYMENT")

\* error facts of a run
ConfigError == input.startup = "config error"
MissingArtifact == input.cmd \in {"go deploy", "js deploy"} /\ ~input.artifactExists
UnknownClient ==
    IsJsBuild /\ \/ input.clientOpt # "" /\ ~HasClient(input.clients, input.clientOpt)
                 \/ /\ input.clientOpt = "" /\ input.defaultClient # ""
                    /\ ~HasClient(input.clients, input.defaultClient)
FailedCopy == \E i \in FsIdx : fsops[i].op = "copy" /\ ~fsops[i].ok
FailedSubprocess ==
    \E i \in ProcIdx : /\ ~procs[i].ok
                       /\ procs[i].cmd \in {"mvn", "jboss-cli.sh undeploy", "jboss-cli.sh deploy"}
FailedMvnOrDeploy ==
    \E i \in ProcIdx : ~procs[i].ok /\ procs[i].cmd \in {"mvn", "jboss-cli.sh deploy"}
ReportedComplete ==
    \/ Printed("Deployed successfully") \/ Printed("Deployment completed")
    \/ Printed("=== Deploy Complete ===") \/ Printed("=== Build Complete ===")

\* C8 as stated: a run in which the artifact was missing, the config could
\* not be loaded, the client name was unknown, a copy failed or an mvn or
\* jboss-cli subprocess failed exits non-zero and does not report completion.
C8_EveryErrorExitsNonZero ==
    (Exited /\ (ConfigError \/ MissingArtifact \/ UnknownClient
                  \/ FailedCopy \/ FailedSubprocess))
        => (exit = "nonzero" /\ ~ReportedComplete)

\* C8 amended: the same, where the failed subprocess is mvn or the jboss-cli
\* deploy (a failed jboss-cli undeploy is ignored).
C8_Amended ==
    (Exited /\ (ConfigError \/ MissingArtifact \/ UnknownClient
                  \/ FailedCopy \/ FailedMvnOrDeploy))
        => (exit = "nonzero" /\ ~ReportedComplete)

\* a deployment was confirmed, its copy failed and the run ended non-zero
C8_Witness ==
    /\ Exited /\ confirmed = "accepted" /\ FailedCopy /\ exit = "nonzero"

\* standalone deployments of a normal module
StandaloneRun ==
    /\ ~input.isGlobal
    /\ \/ IsGo /\ input.mode # "domain"
       \/ IsJsDeploy /\ input.mode \in {"", "standalone"}

CopyIdx   == { i \in FsIdx : fsops[i].op = "copy" }
MarkerIdx == { i \in FsIdx : fsops[i].op = "write" }

\* C9: standalone deployment copies to
\* <wildfly_root>/standalone/deployments/<artifact>, then writes
\* <artifact>.dodeploy there; the marker is written only after a successful
\* copy; a failed copy ends in an error with no marker written; a failed
\* marker write ends in an error with the copied artifact left in place.
C9_CopyThenMarker ==
    StandaloneRun =>
      /\ \A i \in CopyIdx : fsops[i].path = "/opt/wildfly/standalone/deployments/EJBPcs.jar"
      /\ \A i \in MarkerIdx :
           /\ fsops[i].path = "/opt/wildfly/standalone/deployments/EJBPcs.jar.dodeploy"
           /\ \E j \in CopyIdx : j < i /\ fsops[j].ok
      /\ (\E i \in CopyIdx : ~fsops[i].ok) =>
           (MarkerIdx = {} /\ Exited /\ exit = "nonzero")
      /\ \A i \in MarkerIdx : ~fsops[i].ok =>
           /\ Exited /\ exit = "nonzero"
           /\ i = Len(fsops)
           /\ \E j \in CopyIdx : fsops[j].ok
      /\ (Exited /\ exit = "zero" /\ confirmed = "accepted") =>
           /\ \E i \in CopyIdx : fsops[i].ok
           /\ \E i \in MarkerIdx : fsops[i].ok

\* the copy succeeded, the marker write failed, the run ended in an error
C9_Witness ==
    /\ StandaloneRun /\ Exited /\ exit = "nonzero"
    /\ \E i \in MarkerIdx : ~fsops[i].ok
    /\ \E j \in CopyIdx : fsops[j].ok

\* Go deployments of a normal module in domain mode
GoDomainRun == IsGo /\ ~input.isGlobal /\ input.mode = "domain"

\* C10: Go domain deployment starts jboss-cli undeploy, then jboss-cli
\* deploy, once each; the deploy is started whether or not the undeploy
\* succeeded; the deployment fails exactly when the deploy subprocess failed.
C10_UndeployThenDeploy ==
    GoDomainRun =>
      /\ Len(procs) <= 2
      /\ Len(procs) >= 1 => procs[1].cmd = "jboss-cli.sh undeploy"
      /\ Len(procs) >= 2 => procs[2].cmd = "jboss-cli.sh deploy"
      /\ (Exited /\ confirmed = "accepted") =>
           /\ Len(procs) = 2
           /\ exit = "nonzero" <=> ~procs[2].ok
           /\ Printed("Deployed successfully") <=> procs[2].ok

\* the undeploy failed, the deploy succeeded and the run ended with success
C10_Witness ==
    /\ GoDomainRun /\ Exited /\ Len(procs) = 2
    /\ ~procs[1].ok /\ procs[2].ok
    /\ exit = "zero"

\* JS deployments of a normal module in domain mode
JsDomainRun == IsJsDeploy /\ ~input.isGlobal /\ input.mode = "domain"

\* C11: JS domain-mode deployment copies the artifact into
\* <wildfly_root>/domain/deployments/, creating that directory first exactly
\* when it is absent, prints the deploy --server-groups command, writes no
\* .dodeploy marker and starts no subprocess.
C11_JsDomainCopiesAndPrints ==
    JsDomainRun =>
      /\ procs = <<>>
      /\ MarkerIdx = {}
      /\ \A i \in FsIdx :
           \/ /\ fsops[i].op = "copy"
              /\ fsops[i].path = "/opt/wildfly/domain/deployments/EJBPcs.jar"
              /\ Printed("  deploy target/EJBPcs.jar --server-groups=main-server-group")
              /\ ~input.dirExists => \E j \in FsIdx : j < i /\ fsops[j].op = "mkdir" /\ fsops[j].ok
           \/ /\ fsops[i].op = "mkdir"
              /\ fsops[i].path = "/opt/wildfly/domain/deployments"
              /\ ~input.dirExists
              /\ i = 1
      /\ (Exited /\ exit = "zero" /\ confirmed = "accepted") =>
           /\ \E i \in CopyIdx : fsops[i].ok
           /\ Printed("  deploy target/EJBPcs.jar --server-groups=main-server-group")

\* a domain deployment that had to create the directory ran to its end
C11_Witness ==
    /\ JsDomainRun /\ Exited /\ exit = "zero" /\ confirmed = "accepted"
    /\ Len(fsops) = 2 /\ fsops[1].op = "mkdir" /\ fsops[2].op = "copy" /\ fsops[2].ok

\* the command lines of a remote guide among the printed lines
GuideCommands(ls) == Count(ls, LAMBDA l : IsScp(l) \/ HasPrefix(l, "   ssh "))

\* a subprocess running one of the guide's commands
IsRemoteCommand(cmd) == \E w \in {"scp", "ssh", "touch", "tail"} : HasPrefix(cmd, w)

\* C12: the step that prints a remote guide (Go or JS) only prints: it leaves
\* the filesystem operations and the started subprocesses as they were, and
\* no run ever starts scp, ssh, touch or tail.
C12_GuideOnlyPrints ==
    [][ /\ GuideCommands(out') > GuideCommands(out) => (fsops' = fsops /\ procs' = procs)
        /\ \A i \in 1..Len(procs') : ~IsRemoteCommand(procs'[i].cmd) ]_vars

\* a guide was printed at the end of a deployment that did change files
C12_Witness ==
    /\ Exited /\ exit = "zero" /\ GuideCommands(out) >= 3
    /\ \E i \in CopyIdx : fsops[i].ok

\* reading loadConfig's trace
ReadIdx == { i \in FsIdx : fsops[i].op = "read" }
Touched(path) == \E i \in FsIdx : fsops[i].path = path
\* what a load from this file returns or throws
LoadedFrom(file) ==
    IF file.state = "yaml"
    THEN result.kind = "config" /\ result.doc = expandPaths(file.doc)
    ELSE result.kind = "error" /\ HasPrefix(result.msg, "Failed to load config: ")

\* C13: loadConfig uses the user config path if it exists, otherwise
\* config.yaml in the working directory if it exists, otherwise the embedded
\* default; at most one file is read per load, the local file is not even
\* looked at when the user file exists, and a read or parse failure of the
\* chosen file is an error, not a fall through to the next source.
C13_ConfigPriority ==
    /\ Cardinality(ReadIdx) <= 1
    /\ \A i \in ReadIdx : i = Len(fsops)
    /\ input.user.state # "absent" => ~Touched(LocalConfigPath)
    /\ pc = "done" =>
         IF input.user.state # "absent"
         THEN /\ LoadedFrom(input.user)
              /\ \E i \in ReadIdx : fsops[i].path = UserConfigPath
         ELSE IF input.local.state # "absent"
         THEN /\ LoadedFrom(input.local)
              /\ \E i \in ReadIdx : fsops[i].path = LocalConfigPath
         ELSE /\ result = [kind |-> "config", doc |-> expandPaths(embeddedConfig)]
              /\ ReadIdx = {}

\* the user file exists but does not parse, a readable local file exists, and
\* the load ended in an error
C13_Witness ==
    /\ pc = "done" /\ input.user.state = "invalid" /\ input.local.state = "yaml"
    /\ result.kind = "error"

\* C14: a build command naming (by --client, or else by default_client) a
\* client the project does not configure, the project with no clients
\* included, ends at the lookup: non-zero exit with the error reported, and no
\* build plan, no confirmation prompt and no mvn subprocess.
C14_UnknownClientEndsBuild ==
    (UnknownClient /\ input.startup = "ok") =>
      /\ SelectedClient = "unknown"
      /\ pc \in {"start", "exited"}
      /\ procs = <<>> /\ fsops = <<>>
      /\ confirmed = "unasked"
      /\ ~Printed("=== Build Plan ===")
      /\ Exited => (exit = "nonzero" /\ Printed("Error: Client not found"))

\* --client names a client of a project that has none; the command ended
C14_Witness ==
    /\ IsJsBuild /\ input.startup = "ok" /\ input.clientOpt = "ghost"
    /\ input.clients = <<>> /\ Exited /\ exit = "nonzero"

\* the plan of a deployment was printed (Go or JS)
PlanShown == Printed("LOCAL DEPLOYMENT") \/ Printed("=== Deployment Plan ===")
ArtifactNotFoundReported ==
    \E i \in 1..Len(out) : HasPrefix(out[i], "Error: ") /\ Contains(out[i], "rtifact not found")

\* C15: when the artifact path does not exist, deploy (Go or JS) stops at the
\* check: no plan is shown, no confirmation is asked, no file operation and no
\* subprocess happens, and the run ends non-zero with an 'artifact not found'
\* error.
C15_MissingArtifactFirst ==
    (MissingArtifact /\ input.startup = "ok") =>
      /\ pc \in {"start", "stat", "exited"}
      /\ ~PlanShown
      /\ confirmed = "unasked"
      /\ fsops = <<>> /\ procs = <<>>
      /\ Exited => (exit = "nonzero" /\ ArtifactNotFoundReported)

\* a Go deploy of a missing artifact ended
C15_Witness ==
    /\ IsGo /\ MissingArtifact /\ input.startup = "ok" /\ Exited
    /\ Printed("Error: deployment failed: artifact not found")

\* where the steps of a Go deploy show in its output
LinesIn(S) == { i \in 1..Len(out) : out[i] \in S }
PlanIdx == LinesIn({"LOCAL DEPLOYMENT"})
PromptIdx == { i \in 1..Len(out) : HasPrefix(out[i], "Proceed? [Y/n] ") }
SuccessIdx == LinesIn({"Deployed successfully"})
\* checkRestartRequired prints 'NO RESTART NEEDED' or else 'Restart command:'
RestartCheckIdx == LinesIn({"NO RESTART NEEDED", "Restart command:"})
RemoteGuideIdx == LinesIn({"REMOTE DEPLOYMENT GUIDE"})
AllBefore(A, B) == \A i \in A, j \in B : i < j

\* the deployment step of a Go deploy ran to its end without error
GoDeploymentReturnedNil ==
    IF input.isGlobal
    THEN Len(fsops) = 2 /\ fsops[1].op = "mkdir" /\ fsops[1].ok
                        /\ fsops[2].op = "copy" /\ fsops[2].ok
    ELSE IF input.mode = "domain"
    THEN Len(procs) = 2 /\ procs[2].cmd = "jboss-cli.sh deploy" /\ procs[2].ok
    ELSE Len(fsops) = 2 /\ fsops[1].op = "copy" /\ fsops[1].ok
                        /\ fsops[2].op = "write" /\ fsops[2].ok

\* C16: a Go deploy shows the plan, then asks for confirmation, then executes
\* the deployment, then checks the restart requirement, then shows the remote
\* guide; the restart check and the guide appear only once the deployment
\* step returned without error, and never after a declined confirmation or a
\* failed deployment.
C16_GoStepOrder ==
    IsGo =>
      /\ \A S \in {PlanIdx, PromptIdx, SuccessIdx, RestartCheckIdx, RemoteGuideIdx} :
           Cardinality(S) <= 1
      /\ AllBefore(PlanIdx, PromptIdx) /\ AllBefore(PromptIdx, SuccessIdx)
      /\ AllBefore(SuccessIdx, RestartCheckIdx) /\ AllBefore(RestartCheckIdx, RemoteGuideIdx)
      /\ PromptIdx # {} => PlanIdx # {}
      /\ (fsops # <<>> \/ procs # <<>>) => (PromptIdx # {} /\ confirmed = "accepted")
      /\ RemoteGuideIdx # {} => RestartCheckIdx # {}
      /\ RestartCheckIdx # {} =>
           /\ confirmed = "accepted" /\ GoDeploymentReturnedNil
           /\ SuccessIdx # {} /\ Exited /\ exit = "zero"
      /\ (Exited /\ confirmed = "accepted" /\ GoDeploymentReturnedNil) =>
           /\ RestartCheckIdx # {}
           /\ RemoteGuideIdx # {} <=> input.remote # NoClient
      /\ (confirmed = "declined" \/ exit = "nonzero") =>
           (RestartCheckIdx = {} /\ RemoteGuideIdx = {})

\* a confirmed global-module deployment with a remote host ran through all
\* five steps
C16_Witness ==
    /\ IsGo /\ input.isGlobal /\ input.remote # NoClient /\ Exited
    /\ PlanIdx # {} /\ PromptIdx # {} /\ GoDeploymentReturnedNil
    /\ RestartCheckIdx # {} /\ RemoteGuideIdx # {}

\* reading a showRestartGuidance call that reached the classification of
\* the modified files
ClassifiedFiles ==
    /\ pc = "done" /\ input.fn = "showRestartGuidance"
    /\ ~input.isGlobalModule /\ input.packaging # "war"
    /\ ~input.restartRules.isNull /\ input.git.ok
ModuleFiles == filterToModule(input.git.files, input.relativePath)
MatchingRules(file) ==
    { i \in 1..Len(input.restartRules.patterns) :
        globMatch(file, input.restartRules.patterns[i].match) }
HighestSeverity(file) ==
    IF \E i \in MatchingRules(file) : input.restartRules.patterns[i].severity = "required"
    THEN "required" ELSE "recommended"
Tag(severity) == IF severity = "required" THEN "  [REQUIRED] " ELSE "  [RECOMMENDED] "
Verdict == result.lines[2]

\* C17: for every modified file of the module that matches rules, the rule
\* kept (the one reported for the file) is a matching rule of the highest
\* severity among the file's matching rules, whatever the order of the rules;
\* the verdict is YES exactly when some kept match is 'required', RECOMMENDED
\* when there are matches and none is required, NO when no file matches.
C17_RequiredOutranksRecommended ==
    ClassifiedFiles =>
      LET files == ModuleFiles
          rules == input.restartRules.patterns
          lines == result.lines
          reported(f) == { j \in 1..Len(lines) :
                             lines[j] \in {Tag("required") \o f, Tag("recommended") \o f} }
      IN  /\ \A k \in 1..Len(files) :
               LET f == files[k]
               IN  IF MatchingRules(f) = {} THEN reported(f) = {}
                   ELSE /\ Cardinality(reported(f)) = 1
                        /\ \A j \in reported(f) :
                             /\ lines[j] = Tag(HighestSeverity(f)) \o f
                             /\ \E i \in MatchingRules(f) :
                                  /\ rules[i].severity = HighestSeverity(f)
                                  /\ lines[j + 1] = "    Reason: " \o rules[i].reason
          /\ Verdict = "Restart required: YES" <=>
               \E k \in 1..Len(files) : /\ MatchingRules(files[k]) # {}
                                        /\ HighestSeverity(files[k]) = "required"
          /\ Verdict = "Restart required: RECOMMENDED" <=>
               /\ \E k \in 1..Len(files) : MatchingRules(files[k]) # {}
               /\ \A k \in 1..Len(files) :
                    MatchingRules(files[k]) # {} => HighestSeverity(files[k]) = "recommended"
          /\ Verdict = "Restart required: NO" <=>
               \A k \in 1..Len(files) : MatchingRules(files[k]) = {}

\* a file matches a 'recommended' rule listed before a 'required' rule it
\* also matches, and the verdict is YES
C17_Witness ==
    /\ ClassifiedFiles /\ Verdict = "Restart required: YES"
    /\ \E k \in 1..Len(ModuleFiles) :
         \E i, j \in MatchingRules(ModuleFiles[k]) :
            /\ i < j
            /\ input.restartRules.patterns[i].severity = "recommended"
            /\ input.restartRules.patterns[j].severity = "required"

\* a modified file belongs to the module
InModule(file) ==
    input.relativePath = "" \/ HasPrefix(file, input.relativePath \o "/")
\* a modified file the guidance reports as a match
Reported(file) ==
    \E j \in 1..Len(result.lines) :
        result.lines[j] \in {Tag("required") \o file, Tag("recommended") \o file}
GitAsked == procs # << >>

\* C18: showRestartGuidance decides in a fixed order with early exit: a
\* global module is YES; otherwise war packaging is NO, whatever the rules
\* and the modified files; otherwise missing rules are CHECK MANUALLY (git is
\* not asked in these three cases); otherwise a failed git diff is CHECK
\* MANUALLY, not an error; otherwise only the modified files below
\* '<relativePath>/' (all files when relativePath is empty) are classified.
C18_GuidanceOrder ==
    (pc = "done" /\ input.fn = "showRestartGuidance") =>
      LET files == input.git.files
          rules == input.restartRules.patterns
          hit(k) == InModule(files[k]) /\ MatchingRules(files[k]) # {}
      IN  /\ result.kind = "lines"
          /\ result.lines[1] = "=== Restart Guidance ==="
          /\ IF input.isGlobalModule
             THEN /\ Verdict = "Restart required: YES"
                  /\ result.lines[3] = "Reason: Global module deployment"
                  /\ ~GitAsked
             ELSE IF input.packaging = "war"
             THEN /\ Verdict = "Restart required: NO"
                  /\ result.lines[3] = "Reason: WAR hot-deployment"
                  /\ ~GitAsked
             ELSE IF input.restartRules.isNull
             THEN /\ Verdict = "Restart required: CHECK MANUALLY"
                  /\ result.lines[3] = "Reason: No restart rules configured"
                  /\ ~GitAsked
             ELSE IF ~input.git.ok
             THEN /\ Verdict = "Restart required: CHECK MANUALLY"
                  /\ result.lines[3] = "Reason: Unable to detect file changes"
                  /\ GitAsked
             ELSE /\ GitAsked
                  /\ \A k \in 1..Len(files) : Reported(files[k]) <=> hit(k)
                  /\ Verdict = "Restart required: YES" <=>
                       \E k \in 1..Len(files) :
                          hit(k) /\ HighestSeverity(files[k]) = "required"
                  /\ Verdict = "Restart required: NO" <=>
                       \A k \in 1..Len(files) : ~hit(k)

\* a war module with a 'required' rule that matches a modified file of the
\* module: the verdict is NO
C18_Witness ==
    /\ pc = "done" /\ input.fn = "showRestartGuidance"
    /\ ~input.isGlobalModule /\ input.packaging = "war"
    /\ ~input.restartRules.isNull /\ input.git.ok
    /\ \E k \in 1..Len(input.git.files) :
         /\ InModule(input.git.files[k])
         /\ MatchingRules(input.git.files[k]) # {}
         /\ HighestSeverity(input.git.files[k]) = "required"
    /\ Verdict = "Restart required: NO"

\* reading the argument list buildMavenCommand returned
ArgIdx(a) == { i \in 1..Len(result.args) : result.args[i] = a }
Phases == {"package", "install"}

\* C19: the argument list starts with 'clean' followed by exactly one phase
\* ('package' for war, otherwise 'install'); it has '-pl <relativePath>' and
\* '-am' iff the module is a reactor build, '-P <comma-joined profiles>' iff
\* getProfiles returns a non-empty list, '-DskipTests=true' iff skipTests is
\* set; in that order, and nothing else.
C19_MavenArguments ==
    (pc = "done" /\ input.fn = "buildMavenCommand") =>
      LET args == result.args
          profiles == getProfiles(input.profile, input.maven_profiles)
          r == IF input.isReactorBuild THEN 3 ELSE 0
          p == IF Len(profiles) > 0 THEN 2 ELSE 0
          s == IF input.skipTests THEN 1 ELSE 0
      IN  /\ args[1] = "clean" /\ ArgIdx("clean") = {1}
          /\ args[2] = (IF input.packaging = "war" THEN "package" ELSE "install")
          /\ Cardinality({ i \in 1..Len(args) : args[i] \in Phases }) = 1
          /\ Len(args) = 2 + r + p + s
          /\ IF input.isReactorBuild
             THEN /\ ArgIdx("-pl") = {3} /\ args[4] = input.relativePath
                  /\ ArgIdx("-am") = {5}
             ELSE ArgIdx("-pl") = {} /\ ArgIdx("-am") = {}
          /\ IF Len(profiles) > 0
             THEN /\ ArgIdx("-P") = {3 + r}
                  /\ args[4 + r] = JoinComma(profiles)
             ELSE ArgIdx("-P") = {}
          /\ IF input.skipTests
             THEN ArgIdx("-DskipTests=true") = {Len(args)}
             ELSE ArgIdx("-DskipTests=true") = {}

\* a reactor build of a war with a mapped profile list and tests skipped
C19_Witness ==
    /\ pc = "done" /\ input.fn = "buildMavenCommand"
    /\ result.args = << "clean", "package", "-pl", "EJBPcs", "-am",
                        "-P", "test,local", "-DskipTests=true" >>

\* the client the build command is asked to use, by priority: --client,
\* default_client, first configured client, none ("")
WantedClient ==
    IF input.clientOpt # "" THEN input.clientOpt
    ELSE IF input.defaultClient # "" THEN input.defaultClient
    ELSE IF input.clients # << >> THEN input.clients[1]
    ELSE ""
ClientLines == { i \in 1..Len(out) : HasPrefix(out[i], "Client: ") }
RemoteCommandsShown == Printed("=== Remote Deployment Commands ===")
BuildReturnedArtifact == result.kind = "build" /\ result.artifactPath # ""

\* C20: the build command uses --client if given, else default_client if
\* set, else the first configured client, else none; a --client or
\* default_client that is not configured is an error, not a fall through to
\* the next choice; the remote deployment commands are printed exactly when a
\* client was selected and the build returned an artifact path, and never
\* after a declined or failed build.
C20_ClientSelection ==
    (IsJsBuild /\ input.startup = "ok" /\ pc # "start") =>
      IF WantedClient # "" /\ ~HasClient(input.clients, WantedClient)
      THEN /\ Exited /\ exit = "nonzero" /\ Printed("Error: Client not found")
           /\ ClientLines = {} /\ ~RemoteCommandsShown
      ELSE /\ IF WantedClient = "" THEN ClientLines = {}
              ELSE /\ Cardinality(ClientLines) = 1
                   /\ \A i \in ClientLines :
                        out[i] = "Client: " \o WantedClient
                                   \o (IF input.clientOpt # "" THEN ""
                                       ELSE IF input.defaultClient # "" THEN " (default)"
                                       ELSE " (first available)")
           /\ RemoteCommandsShown =>
                /\ WantedClient # "" /\ BuildReturnedArtifact
                /\ confirmed = "accepted"
                /\ \E i \in ProcIdx : procs[i].cmd = "mvn" /\ procs[i].ok
                /\ \E i \in 1..Len(out) :
                     IsScp(out[i]) /\ ToUserHost(out[i], ClientByName(WantedClient))
           /\ (Exited /\ exit = "zero" /\ WantedClient # "" /\ BuildReturnedArtifact)
                => RemoteCommandsShown
           /\ (confirmed \in {"declined", "unanswered"} \/ exit = "nonzero")
                => ~RemoteCommandsShown

\* --client names the second configured client while default_client names
\* another; the build ran and the commands for the --client one were shown
C20_Witness ==
    /\ IsJsBuild /\ Exited /\ RemoteCommandsShown
    /\ input.clientOpt = "beta" /\ input.defaultClient = "alpha"
    /\ input.clients = << "beta", "alpha" >>
    /\ Printed("Client: beta")

\* Go standalone deployments of a normal module
GoStandaloneRun == IsGo /\ ~input.isGlobal /\ input.mode # "domain"
\* the polls made (each announced once) and what they reported
PollIdx == LinesIn({"Waiting for deployment..."})
PollReportIdx ==
    LinesIn({"EJBPcs.jar.deployed found", "Deployment failed - check server logs"})
CopiedAndMarked ==
    /\ Len(fsops) = 2
    /\ fsops[1].op = "copy" /\ fsops[1].ok
    /\ fsops[2].op = "write" /\ fsops[2].ok

\* C21: a Go standalone deployment looks for WildFly's outcome markers once,
\* after the copy and the .dodeploy write succeeded, and its result does not
\* depend on what it finds: with a .deployed marker, a .failed marker or
\* neither, Deploy reports 'Deployed successfully' and the run exits zero.
C21_PollDoesNotDecide ==
    GoStandaloneRun =>
      /\ Cardinality(PollIdx) <= 1 /\ Cardinality(PollReportIdx) <= 1
      /\ PollIdx # {} => CopiedAndMarked
      /\ AllBefore(PollIdx, PollReportIdx) /\ AllBefore(PollReportIdx, SuccessIdx)
      /\ PollReportIdx # {} => PollIdx # {}
      /\ (CopiedAndMarked /\ pc \notin {"marker", "poll"}) => Cardinality(PollIdx) = 1
      /\ (CopiedAndMarked /\ Exited) =>
           (exit = "zero" /\ Cardinality(SuccessIdx) = 1)

\* the poll found the .failed marker and the run still reported success
C21_Witness ==
    /\ GoStandaloneRun /\ Exited /\ exit = "zero"
    /\ Printed("Deployment failed - check server logs")
    /\ Printed("Deployed successfully")

\* the classification was decided by the scan of the source tree: no
\* override, patterns configured, none matching the artifact name, some
\* matching a scanned path
DecidedBySources ==
    /\ Classified
    /\ ~globalModuleOverride(input.rules, input.isGlobal)
    /\ ~input.rules.isNil
    /\ NameMatching = {} /\ SourceMatching # {}

\* C22: when the artifact name matches no pattern and scanned paths match
\* patterns, the severity is 'required' if a matching pattern is 'required'
\* and 'recommended' otherwise, and the reason is that of a matching pattern;
\* with severity 'required' the reason is that of a 'required' matching
\* pattern.
C22_SourceReasonHasSeverity ==
    DecidedBySources =>
      LET ps == input.rules.Patterns
          from(i) == result.reason = "Source code changes: " \o ps[i].Reason
      IN  /\ result.severity =
                (IF \E i \in SourceMatching : ps[i].Severity = "required"
                 THEN "required" ELSE "recommended")
          /\ \E i \in SourceMatching : from(i)
          /\ result.severity = "required" =>
                \E i \in SourceMatching : ps[i].Severity = "required" /\ from(i)

\* reading the classifier's trace
FirstNameMatch == CHOOSE i \in NameMatching : \A j \in NameMatching : i <= j
WalkIdx == { i \in FsIdx : fsops[i].op = "walk" }
OverrideApplies == globalModuleOverride(input.rules, input.isGlobal)
\* the result is the first name-matching pattern's, and nothing was scanned
FirstNameMatchDecides ==
    /\ result.kind = "restart"
    /\ result.severity = input.rules.Patterns[FirstNameMatch].Severity
    /\ result.reason = input.rules.Patterns[FirstNameMatch].Reason
    /\ WalkIdx = {}
\* a pattern whose regex does not compile is never walked with
InvalidSkipped ==
    /\ result.kind = "restart"
    /\ \A i \in WalkIdx : regexpCompileOk(fsops[i].path)

\* C23 as stated: whenever a pattern matches the artifact name the result is
\* the severity and reason of the first such pattern in configuration order
\* and the source tree is not scanned, whatever the source files match;
\* patterns with an invalid regex are skipped without error.
C23_NameMatchFirst ==
    Classified =>
      /\ InvalidSkipped
      /\ (~input.rules.isNil /\ NameMatching # {}) => FirstNameMatchDecides

\* C23 amended: the same, where the global-module override does not apply.
C23_Amended ==
    Classified =>
      /\ InvalidSkipped
      /\ (~input.rules.isNil /\ NameMatching # {} /\ ~OverrideApplies)
            => FirstNameMatchDecides

\* the name matches a 'recommended' pattern, a scanned path matches a
\* 'required' pattern that the name does not match, and the result is the
\* 'recommended' one
C23_Witness ==
    /\ Classified /\ ~OverrideApplies /\ ~input.rules.isNil
    /\ NameMatching # {}
    /\ input.rules.Patterns[FirstNameMatch].Severity = "recommended"
    /\ \E i \in SourceMatching \ NameMatching :
          input.rules.Patterns[i].Severity = "required"
    /\ result.severity = "recommended" /\ WalkIdx = {}

\* the restart check of a Go deploy that reached it
RestartChecked == IsGo /\ Printed("Deployed successfully")
ReturnedSeverity ==
    determineRestartRequirement(input.rules, <<".">>, input.isGlobal,
                                Base(input.artifactPath))[1]
HeadingIdx == LinesIn({"NO RESTART NEEDED", "RESTART RECOMMENDED", "RESTART REQUIRED"})

\* C24: the severity determineRestartRequirement returns is always 'none',
\* 'recommended' or 'required', so checkRestartRequired prints exactly one
\* of the three headings, and prints the restart command exactly when the
\* severity is not 'none'.
C24_ThreeSeverities ==
    RestartChecked =>
      /\ ReturnedSeverity \in {"none", "recommended", "required"}
      /\ Cardinality(HeadingIdx) = 1
      /\ Printed("Restart command:") <=> ReturnedSeverity # "none"

\* what was typed at the prompt, read back from the echoed prompt line
GoPromptText == "Proceed? [Y/n] "
JsPromptText ==
    IF IsJsDeploy THEN "Proceed with deployment? (y/N) " ELSE "Proceed with build? (y/N) "
JsPromptIdx == { i \in 1..Len(out) : HasPrefix(out[i], JsPromptText) }
TypedAt(i, prompt) == SubSeq(out[i], Len(prompt) + 1, Len(out[i]))
\* the inputs whose answer line is empty, 'y' or 'yes' in any case, with
\* surrounding whitespace (Go), and 'y' or 'yes' in any case exactly (JS)
GoAccepted == {"\n", "  \n", "y\n", "Y\n", "Yes\n", " YES \n", "yes\n"}
JsAccepted == {"y\n", "Y\n", "Yes\n", "yes\n", "y"}
Proceeded == fsops # << >> \/ procs # << >>

\* C25: the Go prompt accepts exactly the empty answer, 'y' and 'yes'
\* (any case, surrounding whitespace trimmed) and declines every other answer
\* and an input that ends before the line does; the JS prompt accepts exactly
\* 'y' and 'yes' (any case, not trimmed) and declines the empty answer and
\* every other answer; so an empty answer proceeds in Go and cancels in JS.
C25_PromptAnswers ==
    /\ IsGo =>
         /\ Cardinality(PromptIdx) <= 1
         /\ PromptIdx = {} <=> confirmed = "unasked"
         /\ \A i \in PromptIdx :
              LET typed == TypedAt(i, GoPromptText)
              IN  /\ confirmed = (IF typed \in GoAccepted THEN "accepted" ELSE "declined")
                  /\ typed \notin GoAccepted =>
                       (~Proceeded /\ Printed("Deployment cancelled."))
                  /\ (typed = "\n" /\ Exited) => Proceeded
    /\ ~IsGo =>
         /\ Cardinality(JsPromptIdx) <= 1
         /\ JsPromptIdx = {} <=> confirmed = "unasked"
         /\ \A i \in JsPromptIdx :
              LET typed == TypedAt(i, JsPromptText)
              IN  /\ confirmed = (IF typed \in JsAccepted THEN "accepted"
                                  ELSE IF typed = "" THEN "unanswered"
                                  ELSE "declined")
                  /\ typed \notin JsAccepted => ~Proceeded
                  /\ typed = "\n" =>
                       (Printed("Deployment cancelled") \/ Printed("Build cancelled"))

\* the empty answer was given to the Go prompt and the deployment proceeded
C25_Witness ==
    /\ IsGo /\ Printed("Proceed? [Y/n] \n")
    /\ confirmed = "accepted" /\ Proceeded

====
